---- MODULE Spec2Model ----
(***************************************************************************)
(* Model of the simulation core of jonasrmichel/bobn: the fixed-timestep   *)
(* Engine (internal/game/engine.go), the GameState lifecycle               *)
(* (internal/game/state.go) and the entity rules                           *)
(* (internal/game/entities.go).                                            *)
(*                                                                         *)
(* Units.  Inside a tick, float64 seconds are integer milliseconds and     *)
(* float64 pixels are integer multiples of 1/PosScale pixel; velocities    *)
(* are pixels per second, so that position' = position + velocity * dt     *)
(* holds exactly.  Wall-clock instants (time.Time) are milliseconds on the *)
(* variable now.  The accumulator of Update and the frame times handed to  *)
(* it are float64 values with the rounding of IEEE 754 (the F64 operators).*)
(***************************************************************************)
EXTENDS Integers, Sequences, FiniteSets, TLC

VARIABLES engine, now, pre, call, steps, bridge, game, keyboard

vars == <<engine, now, pre, call, steps, bridge, game, keyboard>>

(* the web host: the key bridge, the game loop and the keyboard in front of it *)
hostVars == <<bridge, game, keyboard>>

(***************************************************************************)
(* Parameters of the host and of the representation                        *)
(***************************************************************************)
ScreenWidth == 800
ScreenHeight == 600
PosScale == 1000

Px(n) == n * PosScale

(* a slice ([]*T) built element by element *)
ToSeq(f) == SubSeq(f, 1, Len(f))

(* GameMode *)
AttractMode == "AttractMode"
Playing == "Playing"
GameOver == "GameOver"
HighScore == "HighScore"

FixedDeltaTime == 50

(***************************************************************************)
(* float64 seconds.  A value v with 0 <= v < 2 that is a multiple of 2^-60 *)
(* is the pair << hi, lo >> with v = (hi * 2^30 + lo) * 2^-60.  Every      *)
(* float64 in [2^-8, 2) is such a value, and so is every sum or difference *)
(* of two of them.  A result is rounded to 53 significant bits, ties to    *)
(* even, as the float64 operators + and - and * of Go do.                  *)
(***************************************************************************)
Limb == 2 ^ 30

F64Zero == << 0, 0 >>

(* GameState.FixedDeltaTime = 1.0 / 20.0, the float64 nearest to 1/20: *)
(* 3602879701896397 * 2^-56                                            *)
FixedStep == << 53687091, 214748368 >>

(* 0.025, the float64 half of FixedStep *)
HalfStep == << 26843545, 644245096 >>

F64AddExact(x, y) ==
    LET lo == x[2] + y[2]
    IN  IF lo >= Limb THEN << x[1] + y[1] + 1, lo - Limb >> ELSE << x[1] + y[1], lo >>

(* x - y for x >= y *)
F64SubExact(x, y) ==
    IF x[2] >= y[2] THEN << x[1] - y[1], x[2] - y[2] >>
    ELSE << x[1] - y[1] - 1, (x[2] + Limb) - y[2] >>

F64Geq(x, y) == x[1] > y[1] \/ (x[1] = y[1] /\ x[2] >= y[2])

F64Less(x, y) == ~F64Geq(x, y)

(* the spacing of the float64 values around x, in units of 2^-60 *)
F64Ulp(x) == 2 ^ Cardinality({j \in 23..30 : x[1] >= 2 ^ j})

F64Round(x) ==
    LET q == F64Ulp(x)
        r == x[2] % q
        down == x[2] - r
        up == down + q
    IN  IF 2 * r < q \/ (2 * r = q /\ (down \div q) % 2 = 0) THEN << x[1], down >>
        ELSE IF up = Limb THEN << x[1] + 1, 0 >>
        ELSE << x[1], up >>

F64Add(x, y) == F64Round(F64AddExact(x, y))

F64Sub(x, y) == F64Round(F64SubExact(x, y))

RECURSIVE F64TimesExact(_, _)
F64TimesExact(n, x) == IF n = 0 THEN F64Zero ELSE F64AddExact(x, F64TimesExact(n - 1, x))

(* float64(n) * x *)
F64Times(n, x) == F64Round(F64TimesExact(n, x))

(* the first n bits after the binary point of r / y, for r < y < 1, and the *)
(* remainder they leave                                                    *)
RECURSIVE F64QuotientBits(_, _, _)
F64QuotientBits(r, y, n) ==
    IF n = 0 THEN << 0, r >>
    ELSE LET p == F64QuotientBits(r, y, n - 1)
             r2 == F64AddExact(p[2], p[2])
         IN  IF F64Geq(r2, y) THEN << 2 * p[1] + 1, F64SubExact(r2, y) >>
             ELSE << 2 * p[1], r2 >>

(* x / y for y < 1 and x / y < 2: the quotient to 60 bits, ten at a time, a *)
(* remainder kept in the last bit, rounded                                  *)
F64Div(x, y) ==
    LET whole == IF F64Geq(x, y) THEN 1 ELSE 0
        r0 == IF whole = 1 THEN F64SubExact(x, y) ELSE x
        b1 == F64QuotientBits(r0, y, 10)
        b2 == F64QuotientBits(b1[2], y, 10)
        b3 == F64QuotientBits(b2[2], y, 10)
        b4 == F64QuotientBits(b3[2], y, 10)
        b5 == F64QuotientBits(b4[2], y, 10)
        b6 == F64QuotientBits(b5[2], y, 10)
        hi == whole * Limb + b1[1] * 2 ^ 20 + b2[1] * 2 ^ 10 + b3[1]
        lo == b4[1] * 2 ^ 20 + b5[1] * 2 ^ 10 + b6[1]
        sticky == IF b6[2] # F64Zero /\ lo % 2 = 0 THEN 1 ELSE 0
    IN  F64Round(<< hi, lo + sticky >>)

(* InvaderType *)
InvaderTypeSmall == "Small"
InvaderTypeMedium == "Medium"
InvaderTypeLarge == "Large"

(***************************************************************************)
(* entities.go: Bounds                                                     *)
(***************************************************************************)
Contains(b, x, y) ==
    /\ x >= b.X
    /\ x < b.X + b.Width
    /\ y >= b.Y
    /\ y < b.Y + b.Height

(* rectangles that intersect when they only touch *)
Intersects_touching(b, other) ==
    /\ b.X <= other.X + other.Width
    /\ b.X + b.Width >= other.X
    /\ b.Y <= other.Y + other.Height
    /\ b.Y + b.Height >= other.Y

(* collision.go: CheckAABBCollision *)
CheckAABBCollision(a, b) ==
    /\ a.X < b.X + b.Width
    /\ a.X + a.Width > b.X
    /\ a.Y < b.Y + b.Height
    /\ a.Y + a.Height > b.Y

Intersects(b, other) ==
    /\ b.X < other.X + other.Width
    /\ b.X + b.Width > other.X
    /\ b.Y < other.Y + other.Height
    /\ b.Y + b.Height > other.Y

(***************************************************************************)
(* entities.go: Bullet                                                     *)
(***************************************************************************)
BulletWidth == Px(2)
BulletHeight == Px(8)

NewBullet(x, y, velX, velY, isPlayerBullet) ==
    [ Position |-> [X |-> x, Y |-> y],
      Velocity |-> [X |-> velX, Y |-> velY],
      Bounds |-> [X |-> x - BulletWidth \div 2, Y |-> y - BulletHeight \div 2,
                  Width |-> BulletWidth, Height |-> BulletHeight],
      Alive |-> TRUE,
      IsPlayerBullet |-> isPlayerBullet,
      Damage |-> 1 ]

(* a bullet that dies on the edge of the screen, not past it *)
(* a bullet that flies on past the sides of the screen *)
BulletUpdate_neverLeaves(b, deltaTime, screenWidth, screenHeight) ==
    IF ~b.Alive THEN b
    ELSE
      LET px == b.Position.X + b.Velocity.X * deltaTime
          py == b.Position.Y + b.Velocity.Y * deltaTime
      IN  [b EXCEPT !.Position = [X |-> px, Y |-> py],
                    !.Bounds.X = px - b.Bounds.Width \div 2,
                    !.Bounds.Y = py - b.Bounds.Height \div 2]

BulletUpdate_diesOnEdge(b, deltaTime, screenWidth, screenHeight) ==
    IF ~b.Alive THEN b
    ELSE
      LET px == b.Position.X + b.Velocity.X * deltaTime
          py == b.Position.Y + b.Velocity.Y * deltaTime
      IN  [b EXCEPT !.Position = [X |-> px, Y |-> py],
                    !.Bounds.X = px - b.Bounds.Width \div 2,
                    !.Bounds.Y = py - b.Bounds.Height \div 2,
                    !.Alive = ~(py <= 0 \/ py >= screenHeight \/ px <= 0 \/ px >= screenWidth)]

BulletUpdate(b, deltaTime, screenWidth, screenHeight) ==
    IF ~b.Alive THEN b
    ELSE
      LET px == b.Position.X + b.Velocity.X * deltaTime
          py == b.Position.Y + b.Velocity.Y * deltaTime
      IN  [b EXCEPT !.Position = [X |-> px, Y |-> py],
                    !.Bounds.X = px - b.Bounds.Width \div 2,
                    !.Bounds.Y = py - b.Bounds.Height \div 2,
                    !.Alive = ~(py < 0 \/ py > screenHeight \/ px < 0 \/ px > screenWidth)]

(***************************************************************************)
(* entities.go: PlayerShip                                                 *)
(***************************************************************************)
ShipWidth == Px(24)
ShipHeight == Px(16)
ShipMaxSpeed == 200
ShipAcceleration == 800
ShipFriction == 400
ShipFireRate == 4
ShipAnimPeriod == 100

NewPlayerShip(x, y, t) ==
    [ Position |-> [X |-> x, Y |-> y],
      Velocity |-> [X |-> 0, Y |-> 0],
      Bounds |-> [X |-> x - ShipWidth \div 2, Y |-> y - ShipHeight \div 2,
                  Width |-> ShipWidth, Height |-> ShipHeight],
      Alive |-> TRUE,
      AnimFrame |-> 0,
      AnimTimer |-> 0,
      CanShoot |-> TRUE,
      LastShotTime |-> t ]

(* a ship that is not held at the screen edges *)
PlayerUpdate_noClamp(p, deltaTime, screenWidth, t) ==
    IF ~p.Alive THEN p
    ELSE
      LET px == p.Position.X + p.Velocity.X * deltaTime
          py == p.Position.Y + p.Velocity.Y * deltaTime
      IN  [p EXCEPT !.Position = [X |-> px, Y |-> py],
                    !.Bounds.X = px - p.Bounds.Width \div 2,
                    !.Bounds.Y = py - p.Bounds.Height \div 2,
                    !.CanShoot = p.CanShoot \/ (t - p.LastShotTime) * ShipFireRate > 1000]

PlayerUpdate(p, deltaTime, screenWidth, t) ==
    IF ~p.Alive THEN p
    ELSE
      LET px == p.Position.X + p.Velocity.X * deltaTime
          py == p.Position.Y + p.Velocity.Y * deltaTime
          halfWidth == p.Bounds.Width \div 2
          low == px < halfWidth
          high == ~low /\ px > screenWidth - halfWidth
          timer == p.AnimTimer + deltaTime
      IN  [p EXCEPT
             !.Position = [X |-> IF low THEN halfWidth
                                 ELSE IF high THEN screenWidth - halfWidth
                                 ELSE px,
                           Y |-> py],
             !.Bounds.X = px - p.Bounds.Width \div 2,
             !.Bounds.Y = py - p.Bounds.Height \div 2,
             !.Velocity.X = IF low \/ high THEN 0 ELSE p.Velocity.X,
             !.CanShoot = p.CanShoot \/ (t - p.LastShotTime) * ShipFireRate > 1000,
             !.AnimFrame = IF timer > ShipAnimPeriod THEN (p.AnimFrame + 1) % 2
                           ELSE p.AnimFrame,
             !.AnimTimer = IF timer > ShipAnimPeriod THEN 0 ELSE timer]

Clamp(v, lo, hi) == IF v > hi THEN hi ELSE IF v < lo THEN lo ELSE v

(* friction that carries the velocity past 0 *)
ApplyInput_frictionOvershoots(p, left, right, deltaTime) ==
    IF ~p.Alive THEN p
    ELSE
      LET vx == p.Velocity.X
          acc == (ShipAcceleration * deltaTime) \div 1000
          fric == (ShipFriction * deltaTime) \div 1000
          v1 == IF left /\ ~right THEN vx - acc
                ELSE IF right /\ ~left THEN vx + acc
                ELSE IF vx > 0 THEN vx - fric
                ELSE IF vx < 0 THEN vx + fric
                ELSE vx
      IN  [p EXCEPT !.Velocity.X = Clamp(v1, -ShipMaxSpeed, ShipMaxSpeed)]

ApplyInput(p, left, right, deltaTime) ==
    IF ~p.Alive THEN p
    ELSE
      LET vx == p.Velocity.X
          acc == (ShipAcceleration * deltaTime) \div 1000
          fric == (ShipFriction * deltaTime) \div 1000
          v1 == IF left /\ ~right THEN vx - acc
                ELSE IF right /\ ~left THEN vx + acc
                ELSE IF vx > 0 THEN (IF vx - fric < 0 THEN 0 ELSE vx - fric)
                ELSE IF vx < 0 THEN (IF vx + fric > 0 THEN 0 ELSE vx + fric)
                ELSE vx
      IN  [p EXCEPT !.Velocity.X = Clamp(v1, -ShipMaxSpeed, ShipMaxSpeed)]

(* a shot that does not wait for the cooldown *)
PlayerTryShoot_noCooldown(p, t) ==
    IF ~p.Alive
    THEN [ship |-> p, bullets |-> << >>]
    ELSE [ship |-> [p EXCEPT !.CanShoot = FALSE, !.LastShotTime = t],
          bullets |-> << NewBullet(p.Position.X, p.Position.Y - p.Bounds.Height \div 2,
                                   0, -400, TRUE) >>]

(* TryShoot returns the ship after the attempt and the bullets it emitted  *)
(* (none for a nil result, one otherwise).                                 *)
PlayerTryShoot(p, t) ==
    IF ~p.Alive \/ ~p.CanShoot
    THEN [ship |-> p, bullets |-> << >>]
    ELSE [ship |-> [p EXCEPT !.CanShoot = FALSE, !.LastShotTime = t],
          bullets |-> << NewBullet(p.Position.X, p.Position.Y - p.Bounds.Height \div 2,
                                   0, -400, TRUE) >>]

(***************************************************************************)
(* entities.go: Invader                                                    *)
(***************************************************************************)
InvaderWidth(invaderType) ==
    CASE invaderType = InvaderTypeSmall -> Px(16)
      [] invaderType = InvaderTypeMedium -> Px(20)
      [] invaderType = InvaderTypeLarge -> Px(24)

InvaderHeight == Px(16)

(* ShootChance in units of 1/100 per second *)
InvaderShootChance(invaderType) ==
    CASE invaderType = InvaderTypeSmall -> 3
      [] invaderType = InvaderTypeMedium -> 2
      [] invaderType = InvaderTypeLarge -> 1

InvaderAnimPeriod == 500

NewInvader(invaderType, x, y, points, t) ==
    [ Type |-> invaderType,
      Position |-> [X |-> x, Y |-> y],
      Bounds |-> [X |-> x - InvaderWidth(invaderType) \div 2, Y |-> y - InvaderHeight \div 2,
                  Width |-> InvaderWidth(invaderType), Height |-> InvaderHeight],
      Alive |-> TRUE,
      Points |-> points,
      Direction |-> 1,
      AnimFrame |-> 0,
      AnimTimer |-> 0,
      CanShoot |-> TRUE,
      ShootChance |-> InvaderShootChance(invaderType),
      LastShotTime |-> t ]

InvaderUpdate(i, deltaTime) ==
    IF ~i.Alive THEN i
    ELSE
      LET timer == i.AnimTimer + deltaTime
      IN  [i EXCEPT !.AnimFrame = IF timer > InvaderAnimPeriod THEN (i.AnimFrame + 1) % 2
                                  ELSE i.AnimFrame,
                    !.AnimTimer = IF timer > InvaderAnimPeriod THEN 0 ELSE timer]

(* a move that does not look at Alive *)
InvaderMove_movesDead(i, deltaX, deltaY) ==
    LET px == i.Position.X + deltaX
        py == i.Position.Y + deltaY
    IN  [i EXCEPT !.Position = [X |-> px, Y |-> py],
                  !.Bounds.X = px - i.Bounds.Width \div 2,
                  !.Bounds.Y = py - i.Bounds.Height \div 2]

InvaderMove(i, deltaX, deltaY) ==
    IF ~i.Alive THEN i
    ELSE
      LET px == i.Position.X + deltaX
          py == i.Position.Y + deltaY
      IN  [i EXCEPT !.Position = [X |-> px, Y |-> py],
                    !.Bounds.X = px - i.Bounds.Width \div 2,
                    !.Bounds.Y = py - i.Bounds.Height \div 2]

(* math.Mod(float64(time.Now().UnixNano()/1000), 1.0): the integer number  *)
(* of microseconds taken modulo 1, in units of 1/100000.                   *)
ShootDraw(t) == ((t * 1000) % 1) * 100000

(* shootProbability = ShootChance * deltaTime, in units of 1/100000 *)
InvaderTryShoot(i, deltaTime, t) ==
    IF ~i.Alive \/ ~i.CanShoot
    THEN [invader |-> i, bullets |-> << >>]
    ELSE IF ShootDraw(t) < i.ShootChance * deltaTime
    THEN [invader |-> [i EXCEPT !.LastShotTime = t],
          bullets |-> << NewBullet(i.Position.X, i.Position.Y + i.Bounds.Height \div 2,
                                   0, 200, FALSE) >>]
    ELSE [invader |-> i, bullets |-> << >>]

(***************************************************************************)
(* entities.go: UFO                                                        *)
(***************************************************************************)
UfoWidth == Px(32)
UfoHeight == Px(16)
UfoSpeed == 100
UfoMaxLifetime == 15000
UfoPointTable == <<100, 150, 200, 300>>

NewUFO(startX, y, direction, t) ==
    [ Position |-> [X |-> startX, Y |-> y],
      Velocity |-> [X |-> UfoSpeed * direction, Y |-> 0],
      Bounds |-> [X |-> startX - UfoWidth \div 2, Y |-> y - UfoHeight \div 2,
                  Width |-> UfoWidth, Height |-> UfoHeight],
      Alive |-> TRUE,
      Points |-> UfoPointTable[(t % 4) + 1],
      Direction |-> direction,
      SpawnTime |-> t ]

UFOUpdate(u, deltaTime, screenWidth, t) ==
    IF ~u.Alive THEN u
    ELSE
      LET px == u.Position.X + u.Velocity.X * deltaTime
          py == u.Position.Y + u.Velocity.Y * deltaTime
      IN  [u EXCEPT !.Position = [X |-> px, Y |-> py],
                    !.Bounds.X = px - u.Bounds.Width \div 2,
                    !.Bounds.Y = py - u.Bounds.Height \div 2,
                    !.Alive = ~(\/ px < -u.Bounds.Width
                                \/ px > screenWidth + u.Bounds.Width
                                \/ t - u.SpawnTime > UfoMaxLifetime)]

(* threshold = 20 + 20 * frac(gameTime * 0.123) seconds, gameTime in ms *)
ShouldSpawnUFO(lastUFOTime, gameTime, t) ==
    (t - lastUFOTime) * 50 > 1000000 + ((gameTime * 123) % 1000000)

(***************************************************************************)
(* state.go: GameState                                                     *)
(***************************************************************************)
Nil == << >>

NewInputState ==
    [ LeftPressed |-> FALSE, RightPressed |-> FALSE, FirePressed |-> FALSE,
      FireJustPressed |-> FALSE, PauseJustPressed |-> FALSE ]

NewGameState(t) ==
    [ Mode |-> AttractMode,
      Paused |-> FALSE,
      GameStarted |-> FALSE,
      GameEnded |-> FALSE,
      Player |-> Nil,
      Lives |-> 3,
      Score |-> 0,
      HighScore |-> 0,
      Invaders |-> << >>,
      Bullets |-> << >>,
      UFO |-> Nil,
      Barriers |-> Nil,
      Wave |-> 1,
      WaveCleared |-> FALSE,
      LastUpdate |-> t,
      DeltaTime |-> F64Zero,
      InputState |-> NewInputState ]

GridRows == 5
GridCols == 11
GridSpacingX == 40
GridSpacingY == 30
GridStartX == 100
GridStartY == 80

RowType(row) ==
    CASE row = 0 -> InvaderTypeSmall
      [] row \in {1, 2} -> InvaderTypeMedium
      [] row \in {3, 4} -> InvaderTypeLarge

RowPoints(row) ==
    CASE row = 0 -> 30
      [] row \in {1, 2} -> 20
      [] row \in {3, 4} -> 10

(* the grid in creation order: row-major, k = row * cols + col + 1 *)
initializeInvaders(t) ==
    ToSeq([ k \in 1..(GridRows * GridCols) |->
              LET row == (k - 1) \div GridCols
                  col == (k - 1) % GridCols
              IN  NewInvader(RowType(row),
                             Px(GridStartX + col * GridSpacingX),
                             Px(GridStartY + row * GridSpacingY),
                             RowPoints(row), t) ])

BarrierCount == 4
BarrierWidth == 22
BarrierHeight == 16

initializeBarriers ==
    [ gx \in 0..(BarrierCount * BarrierWidth - 1) |->
        [ y \in 0..(BarrierHeight - 1) |->
            LET x == gx % BarrierWidth
            IN  /\ ~(y < 3 \/ y > BarrierHeight - 4 \/ x < 3 \/ x > BarrierWidth - 4)
                /\ ~(y > 8 /\ y < 12 /\ x > 8 /\ x < 14) ] ]

StartPositionX == Px(ScreenWidth \div 2)
StartPositionY == Px(ScreenHeight - 40)

(* a new game that keeps the score of the game before *)
InitializeNewGame_keepsScore(gs, t) ==
    [ gs EXCEPT !.Mode = Playing,
                !.Paused = FALSE,
                !.GameStarted = TRUE,
                !.GameEnded = FALSE,
                !.Lives = 3,
                !.Wave = 1,
                !.WaveCleared = FALSE,
                !.Player = << NewPlayerShip(StartPositionX, StartPositionY, t) >>,
                !.Invaders = initializeInvaders(t),
                !.Bullets = << >>,
                !.UFO = Nil,
                !.Barriers = initializeBarriers,
                !.InputState = NewInputState,
                !.LastUpdate = t ]

(* a new game that forgets the high score *)
InitializeNewGame_resetsHighScore(gs, t) ==
    [ gs EXCEPT !.Mode = Playing,
                !.Paused = FALSE,
                !.GameStarted = TRUE,
                !.GameEnded = FALSE,
                !.Lives = 3,
                !.Score = 0,
                !.HighScore = 0,
                !.Wave = 1,
                !.WaveCleared = FALSE,
                !.Player = << NewPlayerShip(StartPositionX, StartPositionY, t) >>,
                !.Invaders = initializeInvaders(t),
                !.Bullets = << >>,
                !.UFO = Nil,
                !.Barriers = initializeBarriers,
                !.InputState = NewInputState,
                !.LastUpdate = t ]

InitializeNewGame(gs, t) ==
    [ gs EXCEPT !.Mode = Playing,
                !.Paused = FALSE,
                !.GameStarted = TRUE,
                !.GameEnded = FALSE,
                !.Lives = 3,
                !.Score = 0,
                !.Wave = 1,
                !.WaveCleared = FALSE,
                !.Player = << NewPlayerShip(StartPositionX, StartPositionY, t) >>,
                !.Invaders = initializeInvaders(t),
                !.Bullets = << >>,
                !.UFO = Nil,
                !.Barriers = initializeBarriers,
                !.InputState = NewInputState,
                !.LastUpdate = t ]

ResetToAttractMode(gs) ==
    [ gs EXCEPT !.Mode = AttractMode,
                !.Paused = FALSE,
                !.GameStarted = FALSE,
                !.GameEnded = FALSE,
                !.Player = Nil,
                !.Invaders = << >>,
                !.Bullets = << >>,
                !.UFO = Nil,
                !.InputState = NewInputState ]

(* a game over that returns straight to the attract screen *)
GameStateGameOver_toAttract(gs) ==
    [ gs EXCEPT !.Mode = AttractMode,
                !.GameEnded = TRUE,
                !.HighScore = IF gs.Score > gs.HighScore THEN gs.Score ELSE gs.HighScore ]

GameStateGameOver(gs) ==
    [ gs EXCEPT !.Mode = GameOver,
                !.GameEnded = TRUE,
                !.HighScore = IF gs.Score > gs.HighScore THEN gs.Score ELSE gs.HighScore ]

IsEnemyBullet(b) == ~b.IsPlayerBullet

(* a next wave that does not build the new grid *)
NextWave_noNewGrid(gs, t) ==
    [ gs EXCEPT !.Wave = gs.Wave + 1,
                !.WaveCleared = FALSE,
                !.Player = IF gs.Player = Nil THEN Nil
                           ELSE << [gs.Player[1] EXCEPT !.Position.X = StartPositionX,
                                                        !.Position.Y = StartPositionY,
                                                        !.Velocity.X = 0] >>,
                !.Bullets = SelectSeq(gs.Bullets, IsEnemyBullet) ]

(* a next wave that keeps the bullets of both sides *)
NextWave_keepsPlayerBullets(gs, t) ==
    [ gs EXCEPT !.Wave = gs.Wave + 1,
                !.WaveCleared = FALSE,
                !.Invaders = initializeInvaders(t),
                !.Player = IF gs.Player = Nil THEN Nil
                           ELSE << [gs.Player[1] EXCEPT !.Position.X = StartPositionX,
                                                        !.Position.Y = StartPositionY,
                                                        !.Velocity.X = 0] >> ]

NextWave(gs, t) ==
    [ gs EXCEPT !.Wave = gs.Wave + 1,
                !.WaveCleared = FALSE,
                !.Invaders = initializeInvaders(t),
                !.Player = IF gs.Player = Nil THEN Nil
                           ELSE << [gs.Player[1] EXCEPT !.Position.X = StartPositionX,
                                                        !.Position.Y = StartPositionY,
                                                        !.Velocity.X = 0] >>,
                !.Bullets = SelectSeq(gs.Bullets, IsEnemyBullet) ]

IsWaveCleared(gs) == Len(gs.Invaders) = 0

GetLiveInvaderCount(gs) == Cardinality({k \in 1..Len(gs.Invaders) : gs.Invaders[k].Alive})

(* points added to the score without a look at the high score *)
AddScore_noHighScore(gs, points) == [gs EXCEPT !.Score = gs.Score + points]

AddScore(gs, points) ==
    [ gs EXCEPT !.Score = gs.Score + points,
                !.HighScore = IF gs.Score + points > gs.HighScore THEN gs.Score + points
                              ELSE gs.HighScore ]

(* a life lost without a look at the lives left *)
LoseLife_noGameOver(gs) == [gs EXCEPT !.Lives = gs.Lives - 1]

LoseLife(gs) ==
    LET g1 == [gs EXCEPT !.Lives = gs.Lives - 1]
    IN  IF g1.Lives <= 0 THEN GameStateGameOver(g1) ELSE g1

TogglePause(gs) ==
    IF gs.Mode = Playing THEN [gs EXCEPT !.Paused = ~gs.Paused] ELSE gs

(***************************************************************************)
(* engine.go: Engine                                                       *)
(***************************************************************************)
BaseInvaderSpeed == 1
InvaderDropDistance == Px(20)
InvaderMoveInterval == 1000
InvaderMoveDistance == Px(10)
EdgeMargin == 20
BottomMargin == 100
AnalogMargin == 30

NewEngine(t) ==
    [ state |-> NewGameState(t),
      lastUFOTime |-> t,
      gameStartTime |-> t,
      invaderMoveTimer |-> 0,
      invaderDropTimer |-> 0,
      accumulator |-> F64Zero ]

resetInvaderMovement(e) ==
    [ e EXCEPT !.invaderMoveTimer = 0, !.invaderDropTimer = 0 ]

StartNewGame(e, t) ==
    resetInvaderMovement([ e EXCEPT !.state = InitializeNewGame(e.state, t),
                                    !.gameStartTime = t,
                                    !.lastUFOTime = t ])

PlayerLive(gs) == gs.Player # Nil /\ gs.Player[1].Alive

(* Position.X = currentX*0.3 + targetX*0.7 with targetX = centerX + analogX*maxOffset; *)
(* analogX is given in tenths.                                                         *)
AnalogTarget(analogX) ==
    LET centerX == Px(ScreenWidth) \div 2
        maxOffset == Px(ScreenWidth) \div 2 - Px(AnalogMargin)
    IN  centerX + (analogX * maxOffset) \div 10

ProcessAnalogInputOp(e, analogX, firePressed, fireJustPressed, pauseJustPressed, t) ==
    CASE e.state.Mode = AttractMode ->
           IF fireJustPressed \/ pauseJustPressed THEN StartNewGame(e, t) ELSE e
      [] e.state.Mode = Playing ->
           LET g1 == IF pauseJustPressed THEN TogglePause(e.state) ELSE e.state
           IN  IF ~g1.Paused /\ PlayerLive(g1)
               THEN LET p0 == g1.Player[1]
                        x1 == (p0.Position.X * 3 + AnalogTarget(analogX) * 7) \div 10
                        x2 == Clamp(x1, Px(AnalogMargin), Px(ScreenWidth) - Px(AnalogMargin))
                        p1 == [p0 EXCEPT !.Position.X = x2]
                        shot == IF firePressed THEN PlayerTryShoot(p1, t)
                                ELSE [ship |-> p1, bullets |-> << >>]
                    IN  [e EXCEPT !.state = [g1 EXCEPT !.Player = << shot.ship >>,
                                                       !.Bullets = g1.Bullets \o shot.bullets]]
               ELSE [e EXCEPT !.state = g1]
      [] e.state.Mode \in {GameOver, HighScore} ->
           IF fireJustPressed \/ pauseJustPressed
           THEN [e EXCEPT !.state.Mode = AttractMode]
           ELSE e

processPlayingInput(e, t) ==
    LET input == e.state.InputState
    IN  IF ~PlayerLive(e.state) THEN e
        ELSE LET p1 == ApplyInput(e.state.Player[1], input.LeftPressed, input.RightPressed,
                                  FixedDeltaTime)
                 shot == IF input.FireJustPressed THEN PlayerTryShoot(p1, t)
                         ELSE [ship |-> p1, bullets |-> << >>]
             IN  [e EXCEPT !.state.Player = << shot.ship >>,
                           !.state.Bullets = e.state.Bullets \o shot.bullets]

(* input that reaches the ship of a paused game *)
ProcessInputOp_movesPaused(e, leftPressed, rightPressed, firePressed, fireJustPressed, pauseJustPressed, t) ==
    LET e0 == [e EXCEPT !.state.InputState =
                 [ LeftPressed |-> leftPressed, RightPressed |-> rightPressed,
                   FirePressed |-> firePressed, FireJustPressed |-> fireJustPressed,
                   PauseJustPressed |-> pauseJustPressed ]]
    IN  CASE e0.state.Mode = AttractMode ->
               IF fireJustPressed THEN StartNewGame(e0, t) ELSE e0
          [] e0.state.Mode = Playing ->
               LET e1 == IF pauseJustPressed
                         THEN [e0 EXCEPT !.state = TogglePause(e0.state)] ELSE e0
               IN  processPlayingInput(e1, t)
          [] e0.state.Mode = GameOver ->
               IF fireJustPressed THEN [e0 EXCEPT !.state = ResetToAttractMode(e0.state)]
               ELSE e0
          [] e0.state.Mode = HighScore ->
               IF fireJustPressed THEN [e0 EXCEPT !.state = ResetToAttractMode(e0.state)]
               ELSE e0

(* a start of the game that hands the same input on to the new ship *)
ProcessInputOp_startsAndFires(e, leftPressed, rightPressed, firePressed, fireJustPressed, pauseJustPressed, t) ==
    LET e0 == [e EXCEPT !.state.InputState =
                 [ LeftPressed |-> leftPressed, RightPressed |-> rightPressed,
                   FirePressed |-> firePressed, FireJustPressed |-> fireJustPressed,
                   PauseJustPressed |-> pauseJustPressed ]]
    IN  CASE e0.state.Mode = AttractMode ->
               IF fireJustPressed
               THEN LET e1 == StartNewGame(e0, t)
                    IN  processPlayingInput([e1 EXCEPT !.state.InputState = e0.state.InputState], t)
               ELSE e0
          [] e0.state.Mode = Playing ->
               LET e1 == IF pauseJustPressed
                         THEN [e0 EXCEPT !.state = TogglePause(e0.state)] ELSE e0
               IN  IF ~e1.state.Paused THEN processPlayingInput(e1, t) ELSE e1
          [] e0.state.Mode = GameOver ->
               IF fireJustPressed THEN [e0 EXCEPT !.state = ResetToAttractMode(e0.state)]
               ELSE e0
          [] e0.state.Mode = HighScore ->
               IF fireJustPressed THEN [e0 EXCEPT !.state = ResetToAttractMode(e0.state)]
               ELSE e0

ProcessInputOp(e, leftPressed, rightPressed, firePressed, fireJustPressed, pauseJustPressed, t) ==
    LET e0 == [e EXCEPT !.state.InputState =
                 [ LeftPressed |-> leftPressed, RightPressed |-> rightPressed,
                   FirePressed |-> firePressed, FireJustPressed |-> fireJustPressed,
                   PauseJustPressed |-> pauseJustPressed ]]
    IN  CASE e0.state.Mode = AttractMode ->
               IF fireJustPressed THEN StartNewGame(e0, t) ELSE e0
          [] e0.state.Mode = Playing ->
               LET e1 == IF pauseJustPressed
                         THEN [e0 EXCEPT !.state = TogglePause(e0.state)] ELSE e0
               IN  IF ~e1.state.Paused THEN processPlayingInput(e1, t) ELSE e1
          [] e0.state.Mode = GameOver ->
               IF fireJustPressed THEN [e0 EXCEPT !.state = ResetToAttractMode(e0.state)]
               ELSE e0
          [] e0.state.Mode = HighScore ->
               IF fireJustPressed THEN [e0 EXCEPT !.state = ResetToAttractMode(e0.state)]
               ELSE e0

HasBullet(shot) == shot.bullets # << >>

IsAlive(x) == x.Alive

(* bounds taken from the first invader of the list alone *)
findInvaderBounds_firstOnly(e) ==
    IF Len(e.state.Invaders) = 0 THEN [leftmost |-> 0, rightmost |-> 0]
    ELSE [leftmost |-> e.state.Invaders[1].Position.X,
          rightmost |-> e.state.Invaders[1].Position.X]

findInvaderBounds(e) ==
    IF Len(e.state.Invaders) = 0 THEN [leftmost |-> 0, rightmost |-> 0]
    ELSE LET xs == {e.state.Invaders[k].Position.X : k \in 1..Len(e.state.Invaders)}
         IN  [leftmost |-> CHOOSE x \in xs : \A y \in xs : x <= y,
              rightmost |-> CHOOSE x \in xs : \A y \in xs : x >= y]

(* a formation at the bottom line that costs the player one life *)
checkInvaderReachBottom_costsALife(e) ==
    IF \E k \in 1..Len(e.state.Invaders) :
          e.state.Invaders[k].Position.Y >= Px(ScreenHeight - BottomMargin)
    THEN [e EXCEPT !.state = LoseLife(e.state)]
    ELSE e

checkInvaderReachBottom(e) ==
    IF \E k \in 1..Len(e.state.Invaders) :
          e.state.Invaders[k].Position.Y >= Px(ScreenHeight - BottomMargin)
    THEN [e EXCEPT !.state = GameStateGameOver(e.state)]
    ELSE e

(* invaderMoveTimer >= invaderMoveInterval / (baseInvaderSpeed * 55/(count+5)).       *)
(* currentMoveInterval = invaderMoveInterval / (baseInvaderSpeed * (55.0 / (count + 5.0))) *)
(* with both parameters 1.0; the inner quotient is held divided by 16, a power of two     *)
MoveIntervalValue(invaderCount) ==
    F64Div(<< 2 ^ 26, 0 >>, F64Div(<< 55 * 2 ^ 20, 0 >>, << (invaderCount + 5) * 2 ^ 24, 0 >>))

(* invaderMoveTimer after k additions of FixedDeltaTime to 0 *)
RECURSIVE MoveTimerValues(_)
MoveTimerValues(k) ==
    IF k = 0 THEN << >>
    ELSE LET sums == MoveTimerValues(k - 1)
             last == IF k = 1 THEN F64Zero ELSE sums[k - 1]
         IN  Append(sums, F64Add(last, FixedStep))

MoveTimerValue(k) == IF k = 0 THEN F64Zero ELSE MoveTimerValues(k)[k]

(* The timer is a float64 sum of 0.05s steps; the one place where that sum differs    *)
(* from the exact value in this comparison is 8 steps against 0.4 (count = 17), where *)
(* the sum is 0.39999999999999997.                                                    *)
(* a formation that steps once a second, however many invaders are left *)
MoveDue_fixedInterval(timer, invaderCount) == timer >= InvaderMoveInterval

MoveDue(timer, invaderCount) ==
    /\ timer * BaseInvaderSpeed * 55 >= InvaderMoveInterval * (invaderCount + 5)
    /\ ~(timer = 400 /\ invaderCount = 17)

(* a formation that, at an edge, turns and drops and takes its sideways step *)
(* as well                                                                  *)
updateInvaderFormation_dropsAndShifts(e, deltaTime) ==
    IF Len(e.state.Invaders) = 0 THEN e
    ELSE
      LET timer == e.invaderMoveTimer + deltaTime
          invs == e.state.Invaders
      IN  IF ~MoveDue(timer, Len(invs)) THEN [e EXCEPT !.invaderMoveTimer = timer]
          ELSE
            LET bounds == findInvaderBounds(e)
                dir0 == invs[1].Direction
                dropRight == dir0 > 0 /\ bounds.rightmost >= Px(ScreenWidth - EdgeMargin)
                dropLeft == ~dropRight /\ dir0 < 0 /\ bounds.leftmost <= Px(EdgeMargin)
                shouldDrop == dropRight \/ dropLeft
                direction == IF dropRight THEN -1 ELSE IF dropLeft THEN 1 ELSE dir0
                moved == ToSeq([ k \in 1..Len(invs) |->
                            InvaderMove([invs[k] EXCEPT !.Direction = direction],
                                        InvaderMoveDistance * direction,
                                        IF shouldDrop THEN InvaderDropDistance ELSE 0) ])
            IN  checkInvaderReachBottom([e EXCEPT !.invaderMoveTimer = 0,
                                                  !.state.Invaders = moved])

(* a formation whose move timer does not advance *)
updateInvaderFormation_standsStill(e, deltaTime) ==
    IF Len(e.state.Invaders) = 0 THEN e
    ELSE IF ~MoveDue(e.invaderMoveTimer, Len(e.state.Invaders)) THEN e
    ELSE checkInvaderReachBottom([e EXCEPT !.invaderMoveTimer = 0])

updateInvaderFormation(e, deltaTime) ==
    IF Len(e.state.Invaders) = 0 THEN e
    ELSE
      LET timer == e.invaderMoveTimer + deltaTime
          invs == e.state.Invaders
      IN  IF ~MoveDue(timer, Len(invs)) THEN [e EXCEPT !.invaderMoveTimer = timer]
          ELSE
            LET bounds == findInvaderBounds(e)
                dir0 == invs[1].Direction
                dropRight == dir0 > 0 /\ bounds.rightmost >= Px(ScreenWidth - EdgeMargin)
                dropLeft == ~dropRight /\ dir0 < 0 /\ bounds.leftmost <= Px(EdgeMargin)
                shouldDrop == dropRight \/ dropLeft
                direction == IF dropRight THEN -1 ELSE IF dropLeft THEN 1 ELSE dir0
                moved == ToSeq([ k \in 1..Len(invs) |->
                            LET i1 == [invs[k] EXCEPT !.Direction = direction]
                            IN  IF shouldDrop THEN InvaderMove(i1, 0, InvaderDropDistance)
                                ELSE InvaderMove(i1, InvaderMoveDistance * direction, 0) ])
            IN  checkInvaderReachBottom([e EXCEPT !.invaderMoveTimer = 0,
                                                  !.state.Invaders = moved])

updateInvaders(e, deltaTime, t) ==
    LET live == SelectSeq(e.state.Invaders, IsAlive)
        shots == ToSeq([ k \in 1..Len(live) |->
                     InvaderTryShoot(InvaderUpdate(live[k], deltaTime), deltaTime, t) ])
        fired == SelectSeq(shots, HasBullet)
        e1 == [e EXCEPT !.state.Invaders = ToSeq([ k \in 1..Len(live) |-> shots[k].invader ]),
                        !.state.Bullets = e.state.Bullets \o
                            ToSeq([ k \in 1..Len(fired) |-> fired[k].bullets[1] ])]
    IN  updateInvaderFormation(e1, deltaTime)

updateBullets(e, deltaTime) ==
    LET live == SelectSeq(e.state.Bullets, IsAlive)
        moved == ToSeq([ k \in 1..Len(live) |->
                     BulletUpdate(live[k], deltaTime, Px(ScreenWidth), Px(ScreenHeight)) ])
    IN  [e EXCEPT !.state.Bullets = SelectSeq(moved, IsAlive)]

updateUFO(e, deltaTime, t) ==
    IF e.state.UFO = Nil THEN e
    ELSE LET u1 == UFOUpdate(e.state.UFO[1], deltaTime, Px(ScreenWidth), t)
         IN  [e EXCEPT !.state.UFO = IF u1.Alive THEN << u1 >> ELSE Nil]

maybeSpawnUFO(e, t) ==
    IF e.state.UFO # Nil THEN e
    ELSE LET gameTime == t - e.gameStartTime
         IN  IF ShouldSpawnUFO(e.lastUFOTime, gameTime, t)
             THEN [e EXCEPT !.lastUFOTime = t,
                            !.state.UFO =
                               IF gameTime % 2000 < 1000
                               THEN << NewUFO(Px(-50), Px(50), 1, t) >>
                               ELSE << NewUFO(Px(ScreenWidth) + Px(50), Px(50), -1, t) >>]
             ELSE e

(***************************************************************************)
(* engine.go: collision resolution                                         *)
(***************************************************************************)
MinOf(S) == CHOOSE x \in S : \A y \in S : x <= y


(* the inner loop without its break: the bullet kills every invader it overlaps *)
bulletVersusInvaders_noBreak(gs, i) ==
    LET b == gs.Bullets[i]
        hits == {j \in 1..Len(gs.Invaders) :
                    gs.Invaders[j].Alive /\ Intersects(b.Bounds, gs.Invaders[j].Bounds)}
        RECURSIVE killAll(_, _)
        killAll(g, js) ==
            IF js = {} THEN g
            ELSE LET j == MinOf(js)
                 IN  killAll(AddScore([g EXCEPT !.Bullets[i].Alive = FALSE,
                                                !.Invaders[j].Alive = FALSE],
                                      g.Invaders[j].Points),
                             js \ {j})
    IN  killAll(gs, hits)

(* the inner loop without its look at invader.Alive: a dead invader stops a bullet *)
bulletVersusInvaders_hitsDead(gs, i) ==
    LET b == gs.Bullets[i]
        hits == {j \in 1..Len(gs.Invaders) : Intersects(b.Bounds, gs.Invaders[j].Bounds)}
    IN  IF hits = {} THEN gs
        ELSE LET j == MinOf(hits)
             IN  AddScore([gs EXCEPT !.Bullets[i].Alive = FALSE,
                                     !.Invaders[j].Alive = FALSE],
                          gs.Invaders[j].Points)

(* the inner loop of handlePlayerBulletCollisions for the bullet at index i *)
bulletVersusInvaders(gs, i) ==
    LET b == gs.Bullets[i]
        hits == {j \in 1..Len(gs.Invaders) :
                    gs.Invaders[j].Alive /\ Intersects(b.Bounds, gs.Invaders[j].Bounds)}
    IN  IF hits = {} THEN gs
        ELSE LET j == MinOf(hits)
             IN  AddScore([gs EXCEPT !.Bullets[i].Alive = FALSE,
                                     !.Invaders[j].Alive = FALSE],
                          gs.Invaders[j].Points)

(* the outer loop, over the indices of the live player bullets in list order *)
RECURSIVE playerBulletLoop(_, _)
playerBulletLoop(gs, is) ==
    IF is = << >> THEN gs
    ELSE playerBulletLoop(bulletVersusInvaders(gs, Head(is)), Tail(is))

RECURSIVE Ascending(_)
Ascending(S) ==
    IF S = {} THEN << >>
    ELSE LET m == MinOf(S) IN << m >> \o Ascending(S \ {m})

LivePlayerBullets(gs) ==
    {i \in 1..Len(gs.Bullets) : gs.Bullets[i].Alive /\ gs.Bullets[i].IsPlayerBullet}

handlePlayerBulletCollisions(e) ==
    [e EXCEPT !.state = playerBulletLoop(e.state, Ascending(LivePlayerBullets(e.state)))]

(* the loop without its break: every player bullet over the UFO dies and scores *)
handlePlayerBulletUFOCollisions_noBreak(e) ==
    LET gs == e.state
    IN  IF gs.UFO = Nil \/ ~gs.UFO[1].Alive THEN e
        ELSE LET hits == {i \in 1..Len(gs.Bullets) :
                            /\ gs.Bullets[i].Alive
                            /\ gs.Bullets[i].IsPlayerBullet
                            /\ Intersects(gs.Bullets[i].Bounds, gs.UFO[1].Bounds)}
             IN  IF hits = {} THEN e
                 ELSE [e EXCEPT !.state =
                         [gs EXCEPT !.Bullets = ToSeq([i \in 1..Len(gs.Bullets) |->
                                                   IF i \in hits
                                                   THEN [gs.Bullets[i] EXCEPT !.Alive = FALSE]
                                                   ELSE gs.Bullets[i]]),
                                    !.UFO[1].Alive = FALSE,
                                    !.Score = gs.Score + Cardinality(hits) * gs.UFO[1].Points,
                                    !.HighScore =
                                       IF gs.Score + Cardinality(hits) * gs.UFO[1].Points
                                             > gs.HighScore
                                       THEN gs.Score + Cardinality(hits) * gs.UFO[1].Points
                                       ELSE gs.HighScore]]

handlePlayerBulletUFOCollisions(e) ==
    LET gs == e.state
    IN  IF gs.UFO = Nil \/ ~gs.UFO[1].Alive THEN e
        ELSE LET hits == {i \in 1..Len(gs.Bullets) :
                            /\ gs.Bullets[i].Alive
                            /\ gs.Bullets[i].IsPlayerBullet
                            /\ Intersects(gs.Bullets[i].Bounds, gs.UFO[1].Bounds)}
             IN  IF hits = {} THEN e
                 ELSE [e EXCEPT !.state =
                         AddScore([gs EXCEPT !.Bullets[MinOf(hits)].Alive = FALSE,
                                             !.UFO[1].Alive = FALSE],
                                  gs.UFO[1].Points)]

IsPlayerBullet(b) == b.IsPlayerBullet

(* a respawn that clears the bullets of both sides *)
respawnPlayer_clearsAllBullets(e, t) ==
    [e EXCEPT !.state.Player = << NewPlayerShip(Px(ScreenWidth \div 2),
                                                Px(ScreenHeight - 40), t) >>,
              !.state.Bullets = << >>]

respawnPlayer(e, t) ==
    [e EXCEPT !.state.Player = << NewPlayerShip(Px(ScreenWidth \div 2),
                                                Px(ScreenHeight - 40), t) >>,
              !.state.Bullets = SelectSeq(e.state.Bullets, IsPlayerBullet)]

(* a respawn that does not ask whether a life is left *)
handleEnemyBulletCollisions_alwaysRespawns(e, t) ==
    LET gs == e.state
    IN  IF ~PlayerLive(gs) THEN e
        ELSE LET hits == {i \in 1..Len(gs.Bullets) :
                            /\ gs.Bullets[i].Alive
                            /\ ~gs.Bullets[i].IsPlayerBullet
                            /\ Intersects(gs.Bullets[i].Bounds, gs.Player[1].Bounds)}
             IN  IF hits = {} THEN e
                 ELSE respawnPlayer(
                        [e EXCEPT !.state =
                            LoseLife([gs EXCEPT !.Bullets[MinOf(hits)].Alive = FALSE,
                                                !.Player[1].Alive = FALSE])], t)

handleEnemyBulletCollisions(e, t) ==
    LET gs == e.state
    IN  IF ~PlayerLive(gs) THEN e
        ELSE LET hits == {i \in 1..Len(gs.Bullets) :
                            /\ gs.Bullets[i].Alive
                            /\ ~gs.Bullets[i].IsPlayerBullet
                            /\ Intersects(gs.Bullets[i].Bounds, gs.Player[1].Bounds)}
             IN  IF hits = {} THEN e
                 ELSE LET g1 == LoseLife([gs EXCEPT !.Bullets[MinOf(hits)].Alive = FALSE,
                                                    !.Player[1].Alive = FALSE])
                          e1 == [e EXCEPT !.state = g1]
                      IN  IF g1.Lives > 0 THEN respawnPlayer(e1, t) ELSE e1

handleCollisions(e, t) ==
    handleEnemyBulletCollisions(
        handlePlayerBulletUFOCollisions(handlePlayerBulletCollisions(e)), t)

checkGameConditions(e, t) ==
    IF IsWaveCleared(e.state) /\ ~e.state.WaveCleared
    THEN resetInvaderMovement([e EXCEPT !.state = NextWave(e.state, t)])
    ELSE e

(***************************************************************************)
(* engine.go: the fixed tick and Update                                    *)
(***************************************************************************)
updatePlayer(e, deltaTime, t) ==
    IF e.state.Player = Nil THEN e
    ELSE [e EXCEPT !.state.Player =
            << PlayerUpdate(e.state.Player[1], deltaTime, Px(ScreenWidth), t) >>]

(* the state with which updatePlaying enters handleCollisions *)
beforeCollisions(e, deltaTime, t) ==
    updateUFO(updateBullets(updateInvaders(updatePlayer(e, deltaTime, t), deltaTime, t),
                            deltaTime),
              deltaTime, t)

updatePlaying(e, deltaTime, t) ==
    maybeSpawnUFO(
        checkGameConditions(handleCollisions(beforeCollisions(e, deltaTime, t), t), t), t)

updateAttractMode(e, deltaTime) == e

(* a game-over screen on which the bullets keep flying *)
updateGameOver_movesBullets(e, deltaTime) == updateBullets(e, deltaTime)

updateGameOver(e, deltaTime) == e

updateHighScore(e, deltaTime) == e

fixedUpdate(e, deltaTime, t) ==
    CASE e.state.Mode = AttractMode -> updateAttractMode(e, deltaTime)
      [] e.state.Mode = Playing -> updatePlaying(e, deltaTime, t)
      [] e.state.Mode = GameOver -> updateGameOver(e, deltaTime)
      [] e.state.Mode = HighScore -> updateHighScore(e, deltaTime)

(* a loop that leaves a whole step in the accumulator *)
LoopCondition_strict(e) == F64Geq(e.accumulator, FixedStep) /\ e.accumulator # FixedStep

(* for e.accumulator >= FixedDeltaTime { fixedUpdate; accumulator -= FixedDeltaTime } *)
LoopCondition(e) == F64Geq(e.accumulator, FixedStep)

(* the loop of Update: the engine states at loop entry and after each iteration *)
RECURSIVE runTicks(_, _)
runTicks(e, t) ==
    IF LoopCondition(e)
    THEN << e >> \o runTicks([fixedUpdate(e, FixedDeltaTime, t)
                                EXCEPT !.accumulator = F64Sub(@, FixedStep)], t)
    ELSE << e >>

(* the frame time added to the accumulator before the pause check *)
UpdateTrace_accumulatesPaused(e, deltaTime, t) ==
    LET e0 == [e EXCEPT !.state.DeltaTime = deltaTime,
                        !.accumulator = F64Add(@, deltaTime)]
    IN  IF e0.state.Paused THEN << e0 >> ELSE runTicks(e0, t)

(* Update(deltaTime): the engine states at entry, at loop entry and after each tick *)
UpdateTrace(e, deltaTime, t) ==
    LET e0 == [e EXCEPT !.state.DeltaTime = deltaTime]
    IN  IF e0.state.Paused THEN << e0 >>
        ELSE runTicks([e0 EXCEPT !.accumulator = F64Add(@, deltaTime)], t)

UpdateOp(e, deltaTime, t) ==
    LET trace == UpdateTrace(e, deltaTime, t)
    IN  trace[Len(trace)]

(***************************************************************************)
(* Bounds of the exploration and the inputs the host may supply            *)
(***************************************************************************)
(* the number of calls and clock advances explored from an initial state *)
MaxSteps == 3

(* frame times handed to Update: none, half a step, one step, two steps and a half *)
Dts == {F64Zero, HalfStep, FixedStep, F64Add(F64Times(2, FixedStep), HalfStep)}

(* a long frame: the number of fixed steps in the longest frame time handed to Update *)
LongFrame == 15

(* wall-clock time that may pass between two calls, in ms *)
WallSteps == {300}

NoKeys ==
    [ analogX |-> 0, left |-> FALSE, right |-> FALSE, fire |-> FALSE,
      fireJust |-> FALSE, pauseJust |-> FALSE ]

FireKey == [NoKeys EXCEPT !.fire = TRUE, !.fireJust = TRUE]

PauseKey == [NoKeys EXCEPT !.pauseJust = TRUE]

KeyInputs ==
    { NoKeys, [NoKeys EXCEPT !.left = TRUE], [NoKeys EXCEPT !.right = TRUE],
      FireKey, PauseKey }

AnalogInputs ==
    { [NoKeys EXCEPT !.analogX = 10],
      [NoKeys EXCEPT !.analogX = -10, !.fire = TRUE],
      FireKey, PauseKey }

(* the states a tick in Playing mode passes through, from its entry state e *)
TickStages(e, t) ==
    LET atCollisions == beforeCollisions(e, FixedDeltaTime, t)
        afterPlayerBullets == handlePlayerBulletCollisions(atCollisions)
        beforeEnemyBullets == handlePlayerBulletUFOCollisions(afterPlayerBullets)
        afterCollisions == handleEnemyBulletCollisions(beforeEnemyBullets, t)
        afterWaveCheck == checkGameConditions(afterCollisions, t)
    IN  [ atCollisions |-> atCollisions.state,
          afterPlayerBullets |-> afterPlayerBullets.state,
          beforeEnemyBullets |-> beforeEnemyBullets.state,
          afterCollisions |-> afterCollisions.state,
          afterWaveCheck |-> afterWaveCheck.state ]

(* the ticks of the last call that ran in Playing mode, as positions in its trace *)
PlayingTicks(trace) == {k \in 1..(Len(trace) - 1) : trace[k].state.Mode = Playing}

(* the ships created by an input call: StartNewGame makes one *)
NewShips(e0, e1) == IF e0.state.Mode = AttractMode /\ e1.state.Mode = Playing THEN 1 ELSE 0

(* the ships created by the ticks of an Update call: respawnPlayer makes one *)
Respawns(trace, t) ==
    Cardinality({k \in PlayingTicks(trace) :
        LET s == TickStages(trace[k], t)
        IN  s.afterCollisions.Lives < s.beforeEnemyBullets.Lives /\ s.afterCollisions.Lives > 0})

(* the bullets an input call at time t appended for the ship numbered ship *)
ShotLog(e0, e1, t, ship) ==
    IF e0.state.Mode = Playing /\ Len(e1.state.Bullets) > Len(e0.state.Bullets)
    THEN << [t |-> t, ship |-> ship] >>
    ELSE << >>

(***************************************************************************)
(* The web host: JSBridge (package wasm), Game (cmd/wasm) and the camera   *)
(***************************************************************************)

(* the names of event.key and event.code the bridge's maps are indexed by *)
KeyNames ==
    { "ArrowLeft", "ArrowRight", "ArrowUp", "ArrowDown", " ", "Space", "Enter",
      "Escape", "p", "P", "KeyP" }

NoKeysDown == [ k \in KeyNames |-> FALSE ]

NewJSBridge == [ keysPressed |-> NoKeysDown, keysJustPressed |-> NoKeysDown ]

(* JSBridge.GetInputState: the InputState it returns and the bridge it leaves *)
GetInputState(b) ==
    [ state |->
        [ LeftPressed |-> b.keysPressed["ArrowLeft"],
          RightPressed |-> b.keysPressed["ArrowRight"],
          UpPressed |-> b.keysPressed["ArrowUp"],
          DownPressed |-> b.keysPressed["ArrowDown"],
          FirePressed |-> b.keysPressed[" "] \/ b.keysPressed["Space"],
          FireJustPressed |-> b.keysJustPressed[" "] \/ b.keysJustPressed["Space"],
          PauseJustPressed |-> \/ b.keysJustPressed["Escape"]
                               \/ b.keysJustPressed["p"]
                               \/ b.keysJustPressed["P"],
          EnterJustPressed |-> b.keysJustPressed["Enter"] ],
      bridge |-> [b EXCEPT !.keysJustPressed = NoKeysDown] ]

(* the keydown listener of the bridge *)
keydownListener(b, key, code) ==
    [ keysPressed |-> [ k \in KeyNames |-> b.keysPressed[k] \/ k \in {key, code} ],
      keysJustPressed |->
          [ k \in KeyNames |->
              b.keysJustPressed[k] \/ (k \in {key, code} /\ ~b.keysPressed[k]) ] ]

keyupListener(b, key, code) ==
    [ b EXCEPT !.keysPressed = [ k \in KeyNames |-> @[k] /\ k \notin {key, code} ] ]

focusListener(b) == [ b EXCEPT !.keysPressed = NoKeysDown ]

blurListener(b) == [ b EXCEPT !.keysPressed = NoKeysDown ]

(* the keys of the keyboard behind the just-pressed flags: fire, Enter and *)
(* the two pause keys                                                     *)
Buttons == { "SpaceBar", "EnterKey", "PKey", "EscapeKey" }

(* event.key and event.code of a key, pressed without Shift *)
KeyOf(k) ==
    CASE k = "SpaceBar" -> " "
      [] k = "EnterKey" -> "Enter"
      [] k = "EscapeKey" -> "Escape"
      [] k = "PKey" -> "p"

CodeOf(k) ==
    CASE k = "SpaceBar" -> "Space"
      [] k = "EnterKey" -> "Enter"
      [] k = "EscapeKey" -> "Escape"
      [] k = "PKey" -> "KeyP"

(* the just-pressed flag of an InputState that reports a key *)
Reported(input, k) ==
    CASE k = "SpaceBar" -> input.FireJustPressed
      [] k = "EnterKey" -> input.EnterJustPressed
      [] k \in { "EscapeKey", "PKey" } -> input.PauseJustPressed

(* the keydown listener of initializeGame: the space bar stops and starts  *)
(* the game loop, Escape stops it                                          *)
LoopKey(running, key) ==
    CASE key = " " -> ~running
      [] key = "Escape" -> FALSE
      [] OTHER -> running

(* frame times of requestAnimationFrame, in ms, and Game's fixed step *)
FrameTimes == { 20, 100 }

HostStep == 50

(* positions the camera reports, in tenths *)
CameraXs == { 5 }

(* the presses of each key since the last GetInputState, before any press *)
NothingOwed == [ k \in Buttons |-> 0 ]

(* Game.update's loop: one GetInputState, one input call and one           *)
(* Engine.Update per fixed step of the accumulator; with the final state,  *)
(* what each step read and did                                             *)
RECURSIVE hostTicks(_, _, _)
hostTicks(h, owed, t) ==
    IF h.accumulator < HostStep THEN h
    ELSE
      LET got == GetInputState(h.bridge)
          input == got.state
          analog == h.cameraEnabled /\ h.engine.state.Mode = Playing
          pause == input.PauseJustPressed \/ input.EnterJustPressed
          e1 == IF analog
                THEN ProcessAnalogInputOp(h.engine, h.cameraX, input.FirePressed,
                                          input.FireJustPressed, pause, t)
                ELSE ProcessInputOp(h.engine, input.LeftPressed, input.RightPressed,
                                    input.FirePressed, input.FireJustPressed, pause, t)
          e2 == UpdateOp(e1, FixedStep, t)
          tick == [ input |-> input, owed |-> owed, analog |-> analog,
                    before |-> h.engine.state.Mode, after |-> e1.state.Mode,
                    fresh |-> /\ h.engine.state.Mode = AttractMode
                              /\ e1.state.Mode = Playing
                              /\ e1.state = InitializeNewGame(e1.state, t) ]
      IN  hostTicks([ h EXCEPT !.accumulator = @ - HostStep,
                               !.bridge = got.bridge,
                               !.engine = e2,
                               !.ticks = Append(@, tick) ],
                    NothingOwed, t)

(* the page loaded: NewGame, the camera not yet granted, the loop started, no *)
(* key down                                                                  *)
HostLoaded ==
    /\ bridge = NewJSBridge
    /\ game = [ accumulator |-> 0, running |-> TRUE, cameraEnabled |-> FALSE,
                cameraX |-> 0, frames |-> 0, ticks |-> << >> ]
    /\ keyboard = [ held |-> {}, focused |-> TRUE, last |-> "none", events |-> 0,
                    owed |-> NothingOwed ]

(***************************************************************************)
(* Actions: one per entry point of the Engine                              *)
(***************************************************************************)
NoCall == [op |-> "NewEngine", in |-> NoKeys, dt |-> F64Zero, t |-> 0, ticks |-> 0]

(* the calls made so far, the ships created so far and, for each player bullet *)
(* created so far, the time of its creation and the ship that fired it          *)
NoSteps == [inputs |-> 0, updates |-> 0, elapses |-> 0, ships |-> 0, shots |-> << >>]

StepsTaken == steps.inputs + steps.updates + steps.elapses

Boot ==
    /\ now = 0
    /\ engine = NewEngine(0)
    /\ pre = NewEngine(0)
    /\ call = NoCall
    /\ steps = NoSteps
    /\ HostLoaded

ProcessInput(in) ==
    /\ StepsTaken < MaxSteps
    /\ engine' = ProcessInputOp(engine, in.left, in.right, in.fire, in.fireJust,
                                in.pauseJust, now)
    /\ pre' = engine
    /\ call' = [op |-> "ProcessInput", in |-> in, dt |-> F64Zero, t |-> now, ticks |-> 0]
    /\ steps' = [steps EXCEPT !.inputs = @ + 1,
                              !.ships = @ + NewShips(engine, engine'),
                              !.shots = @ \o ShotLog(engine, engine', now, steps.ships)]
    /\ UNCHANGED <<now, hostVars>>

ProcessAnalogInput(in) ==
    /\ StepsTaken < MaxSteps
    /\ engine' = ProcessAnalogInputOp(engine, in.analogX, in.fire, in.fireJust,
                                      in.pauseJust, now)
    /\ pre' = engine
    /\ call' = [op |-> "ProcessAnalogInput", in |-> in, dt |-> F64Zero, t |-> now, ticks |-> 0]
    /\ steps' = [steps EXCEPT !.inputs = @ + 1,
                              !.ships = @ + NewShips(engine, engine'),
                              !.shots = @ \o ShotLog(engine, engine', now, steps.ships)]
    /\ UNCHANGED <<now, hostVars>>

Update(deltaTime) ==
    /\ StepsTaken < MaxSteps
    /\ LET trace == UpdateTrace(engine, deltaTime, now)
       IN  /\ engine' = trace[Len(trace)]
           /\ call' = [op |-> "Update", in |-> NoKeys, dt |-> deltaTime, t |-> now,
                       ticks |-> Len(trace) - 1]
           /\ steps' = [steps EXCEPT !.updates = @ + 1,
                                     !.ships = @ + Respawns(trace, now)]
    /\ pre' = engine
    /\ UNCHANGED <<now, hostVars>>

(* wall-clock time passing between calls *)
Elapse(w) ==
    /\ StepsTaken < MaxSteps
    /\ now' = now + w
    /\ steps' = [steps EXCEPT !.elapses = @ + 1]
    /\ UNCHANGED <<engine, pre, call, hostVars>>

Next ==
    \/ \E in \in KeyInputs : ProcessInput(in)
    \/ \E in \in AnalogInputs : ProcessAnalogInput(in)
    \/ \E deltaTime \in Dts : Update(deltaTime)
    \/ \E w \in WallSteps : Elapse(w)

Init == Boot

Spec == Init /\ [][Next]_vars

(***************************************************************************)
(* Games in progress.  The exploration from NewEngine covers the start of  *)
(* a game; the states below are snapshots of wave 1 late in a game, 60 s   *)
(* after StartNewGame, from which the collisions, the wave change and the  *)
(* end of the game are a few ticks away.                                   *)
(***************************************************************************)
PlayTime == 60 * 1000

(* the invader created at (row, col), after the formation moved by (dx, dy) pixels *)
GridInvader(row, col, dx, dy, direction) ==
    LET i0 == NewInvader(RowType(row),
                         Px(GridStartX + col * GridSpacingX),
                         Px(GridStartY + row * GridSpacingY),
                         RowPoints(row), 0)
    IN  [InvaderMove(i0, Px(dx), Px(dy)) EXCEPT !.Direction = direction,
                                              !.LastShotTime = PlayTime - FixedDeltaTime]

PlayerBulletAt(x, y) == NewBullet(Px(x), Px(y), 0, -400, TRUE)

EnemyBulletAt(x, y) == NewBullet(Px(x), Px(y), 0, 200, FALSE)

RECURSIVE SumPoints(_)
SumPoints(invs) == IF invs = << >> THEN 0 ELSE Head(invs).Points + SumPoints(Tail(invs))

WavePoints == 11 * 30 + 22 * 20 + 22 * 10

GameInProgress(invaders, bullets, lives, moveTimer) ==
    [ state |->
        [ InitializeNewGame(NewGameState(0), 0) EXCEPT
            !.Player = << NewPlayerShip(StartPositionX, StartPositionY, PlayTime - 1000) >>,
            !.Lives = lives,
            !.Score = WavePoints - SumPoints(invaders),
            !.HighScore = WavePoints - SumPoints(invaders),
            !.Invaders = invaders,
            !.Bullets = bullets,
            !.DeltaTime = FixedStep ],
      lastUFOTime |-> PlayTime - 10000,
      gameStartTime |-> 0,
      invaderMoveTimer |-> moveTimer,
      invaderDropTimer |-> 0,
      accumulator |-> F64Zero ]

(* the last invader, above the player, with a player bullet one tick below it and *)
(* an enemy bullet one or two ticks above the player, who drifts left after one   *)
(* press of the left key                                                          *)
LastInvader(lives, enemyY) ==
    LET g == GameInProgress(<< GridInvader(4, 7, 20, 0, 1) >>,
                            << EnemyBulletAt(300, 400), PlayerBulletAt(400, 228),
                               EnemyBulletAt(400, enemyY), PlayerBulletAt(400, 128) >>,
                            lives, 0)
    IN  [g EXCEPT !.state.Player[1].Velocity.X = -40]

(* three invaders on the left, two enemy bullets one tick above the player *)
UnderFire(lives) ==
    GameInProgress(<< GridInvader(3, 0, 40, 20, 1), GridInvader(4, 0, 40, 20, 1),
                      GridInvader(4, 1, 40, 20, 1) >>,
                   << PlayerBulletAt(400, 300), EnemyBulletAt(400, 540),
                      EnemyBulletAt(405, 545), PlayerBulletAt(400, 200),
                      EnemyBulletAt(200, 300) >>,
                   lives, 0)

(* two invaders at the right edge, one drop above the bottom line, a step due *)
NearBottom(lives) ==
    GameInProgress(<< GridInvader(4, 9, 280, 280, 1), GridInvader(4, 10, 280, 280, 1) >>,
                   << EnemyBulletAt(740, 500), EnemyBulletAt(780, 500) >>,
                   lives, 100)

(* the player x pixels from the left edge of the screen, at the speed vx the left *)
(* or right key held for a while gives it                                        *)
AtEdge(x, vx) ==
    LET g == UnderFire(3)
    IN  [g EXCEPT !.state.Player[1].Position.X = Px(x),
                  !.state.Player[1].Bounds.X = Px(x) - ShipWidth \div 2,
                  !.state.Player[1].Velocity.X = vx]

(* a later game: the last invader of wave 1, under the high score of an earlier game *)
SecondGame == [LastInvader(3, 400) EXCEPT !.state.HighScore = 2 * WavePoints]

(* the ship 100 ms after a shot, its cooldown running *)
Reloading ==
    [LastInvader(3, 400) EXCEPT !.state.Player[1].CanShoot = FALSE,
                                !.state.Player[1].LastShotTime = PlayTime - 100]

(* the shot a ship in its cooldown has fired: TryShoot alone clears CanShoot *)
ShotsBefore(e) ==
    IF PlayerLive(e.state) /\ ~e.state.Player[1].CanShoot
    THEN << [t |-> e.state.Player[1].LastShotTime, ship |-> 0] >>
    ELSE << >>

(* seventeen invaders left, rows 3 and 4 of the grid, seven ticks after their last step *)
Seventeen ==
    GameInProgress(ToSeq([ k \in 1..17 |->
                       IF k <= 6 THEN GridInvader(3, k - 1, 0, 0, 1)
                       ELSE GridInvader(4, k - 7, 0, 0, 1) ]),
                   << >>, 3, 7 * FixedDeltaTime)

GamesInProgress ==
    { LastInvader(3, 400), LastInvader(2, 530), LastInvader(1, 530), LastInvader(1, 540),
      UnderFire(1), UnderFire(2), UnderFire(3), NearBottom(1), NearBottom(3),
      SecondGame, AtEdge(14, -ShipMaxSpeed), AtEdge(ScreenWidth - 14, ShipMaxSpeed),
      Reloading, Seventeen }

PlayKeys == {FireKey, PauseKey}

PlayAnalogs == {[NoKeys EXCEPT !.analogX = 10, !.fire = TRUE], PauseKey}

(* one step, and two steps and a half *)
PlayDts == {FixedStep, F64Add(F64Times(2, FixedStep), HalfStep)}

InitPlay ==
    /\ now = PlayTime
    /\ engine \in GamesInProgress \cup {NewEngine(PlayTime)}
    /\ pre = engine
    /\ call = NoCall
    /\ steps = [NoSteps EXCEPT !.shots = ShotsBefore(engine)]
    /\ HostLoaded

NextPlay ==
    \/ \E in \in PlayKeys : ProcessInput(in)
    \/ \E in \in PlayAnalogs : ProcessAnalogInput(in)
    \/ \E deltaTime \in PlayDts : Update(deltaTime)
    \/ \E w \in WallSteps : Elapse(w)

SpecPlay == InitPlay /\ [][NextPlay]_vars

(* the same games in progress, for the claims about the ship and the score *)
SpecPlayer == InitPlay /\ [][NextPlay]_vars

(* the same games in progress, for the claims about what a tick leaves alone *)
SpecTicks == InitPlay /\ [][NextPlay]_vars

(* the games in progress in which lives are lost, and a new engine *)
LifeGames ==
    { UnderFire(1), UnderFire(2), UnderFire(3), LastInvader(1, 530), LastInvader(1, 540),
      NearBottom(1), NewEngine(PlayTime) }

InitLives ==
    /\ now = PlayTime
    /\ engine \in LifeGames
    /\ pre = engine
    /\ call = NoCall
    /\ steps = NoSteps
    /\ HostLoaded

SpecLives == InitLives /\ [][NextPlay]_vars

(* Frames of every length, a stalled frame of LongFrame steps among them, from a *)
(* new engine                                                                    *)
FrameDts == {F64Zero, HalfStep, FixedStep, F64Times(LongFrame, FixedStep)}

NextFrames ==
    \/ \E in \in PlayKeys : ProcessInput(in)
    \/ \E in \in PlayAnalogs : ProcessAnalogInput(in)
    \/ \E deltaTime \in FrameDts : Update(deltaTime)

SpecFrames == Init /\ [][NextFrames]_vars

(***************************************************************************)
(* The web host at work: key events, focus, the camera and the frames of   *)
(* the game loop, from the page as loaded                                  *)
(***************************************************************************)
MaxEvents == 4

MaxFrames == 2

(* a key goes down in the focused page: both keydown listeners run *)
KeyDown(k) ==
    /\ keyboard.events < MaxEvents
    /\ keyboard.focused /\ k \notin keyboard.held
    /\ bridge' = keydownListener(bridge, KeyOf(k), CodeOf(k))
    /\ game' = [game EXCEPT !.running = LoopKey(@, KeyOf(k))]
    /\ keyboard' = [keyboard EXCEPT !.held = @ \cup {k}, !.last = k, !.events = @ + 1,
                                    !.owed = [@ EXCEPT ![k] = @ + 1]]
    /\ UNCHANGED <<engine, now, pre, call, steps>>

(* the key pressed last is still down: the keyboard repeats its keydown *)
AutoRepeat ==
    /\ keyboard.events < MaxEvents
    /\ keyboard.focused /\ keyboard.last \in keyboard.held
    /\ bridge' = keydownListener(bridge, KeyOf(keyboard.last),
                                 CodeOf(keyboard.last))
    /\ game' = [game EXCEPT !.running = LoopKey(@, KeyOf(keyboard.last))]
    /\ keyboard' = [keyboard EXCEPT !.events = @ + 1]
    /\ UNCHANGED <<engine, now, pre, call, steps>>

(* a key goes up in the focused page *)
KeyUp(k) ==
    /\ keyboard.events < MaxEvents
    /\ keyboard.focused /\ k \in keyboard.held
    /\ bridge' = keyupListener(bridge, KeyOf(k), CodeOf(k))
    /\ keyboard' = [keyboard EXCEPT !.held = @ \ {k}, !.events = @ + 1,
                                    !.last = IF @ = k THEN "none" ELSE @]
    /\ UNCHANGED <<engine, now, pre, call, steps, game>>

(* a key goes up while another window has the focus: no event reaches the page *)
KeyUpElsewhere(k) ==
    /\ keyboard.events < MaxEvents
    /\ ~keyboard.focused /\ k \in keyboard.held
    /\ keyboard' = [keyboard EXCEPT !.held = @ \ {k}, !.events = @ + 1,
                                    !.last = IF @ = k THEN "none" ELSE @]
    /\ UNCHANGED <<engine, now, pre, call, steps, game, bridge>>

Blur ==
    /\ keyboard.events < MaxEvents
    /\ keyboard.focused
    /\ bridge' = blurListener(bridge)
    /\ keyboard' = [keyboard EXCEPT !.focused = FALSE, !.events = @ + 1]
    /\ UNCHANGED <<engine, now, pre, call, steps, game>>

Focus ==
    /\ keyboard.events < MaxEvents
    /\ ~keyboard.focused
    /\ bridge' = focusListener(bridge)
    /\ keyboard' = [keyboard EXCEPT !.focused = TRUE, !.events = @ + 1]
    /\ UNCHANGED <<engine, now, pre, call, steps, game>>

(* getUserMedia's promise fulfilled (rejected, it leaves enabled = false, as *)
(* it was)                                                                  *)
CameraGranted ==
    /\ ~game.cameraEnabled
    /\ game' = [game EXCEPT !.cameraEnabled = TRUE]
    /\ UNCHANGED <<engine, now, pre, call, steps, bridge, keyboard>>

(* processFrame's position callback *)
CameraPosition(x) ==
    /\ game.cameraEnabled /\ game.cameraX # x
    /\ game' = [game EXCEPT !.cameraX = x]
    /\ UNCHANGED <<engine, now, pre, call, steps, bridge, keyboard>>

(* a frame of the game loop: Game.update(deltaTime) *)
Frame(deltaTime) ==
    /\ game.frames < MaxFrames
    /\ game.running
    /\ LET h == hostTicks([ accumulator |-> game.accumulator + deltaTime,
                            bridge |-> bridge, engine |-> engine,
                            cameraEnabled |-> game.cameraEnabled,
                            cameraX |-> game.cameraX, ticks |-> << >> ],
                          keyboard.owed, now + deltaTime)
       IN  /\ engine' = h.engine
           /\ bridge' = h.bridge
           /\ game' = [game EXCEPT !.accumulator = h.accumulator, !.frames = @ + 1,
                                   !.ticks = h.ticks]
           /\ keyboard' = IF h.ticks = << >> THEN keyboard
                          ELSE [keyboard EXCEPT !.owed = NothingOwed]
           /\ call' = [op |-> "Game.update", in |-> NoKeys, dt |-> F64Zero,
                       t |-> now + deltaTime, ticks |-> Len(h.ticks)]
    /\ now' = now + deltaTime
    /\ pre' = engine
    /\ UNCHANGED steps

NextHost ==
    \/ \E k \in Buttons : KeyDown(k)
    \/ AutoRepeat
    \/ \E k \in Buttons : KeyUp(k)
    \/ \E k \in Buttons : KeyUpElsewhere(k)
    \/ Blur
    \/ Focus
    \/ CameraGranted
    \/ \E x \in CameraXs : CameraPosition(x)
    \/ \E deltaTime \in FrameTimes : Frame(deltaTime)

SpecHost == Init /\ [][NextHost]_vars

(***************************************************************************)
(* Formations on the march: three invaders one tick before a step, at and  *)
(* next to the edges of the screen, moving either way                      *)
(***************************************************************************)

(* rows 3 and 4 of columns 0 and 1, the leftmost at x pixels, a step due on *)
(* the next tick                                                            *)
Marching(x, direction) ==
    GameInProgress(<< GridInvader(3, 0, x - GridStartX, 0, direction),
                      GridInvader(4, 0, x - GridStartX, 0, direction),
                      GridInvader(4, 1, x - GridStartX, 0, direction) >>,
                   << >>, 3, 2 * FixedDeltaTime)

Formations ==
    { Marching(x, direction) :
        x \in { EdgeMargin, EdgeMargin + 10, 400,
                ScreenWidth - EdgeMargin - GridSpacingX - 10,
                ScreenWidth - EdgeMargin - GridSpacingX },
        direction \in { -1, 1 } }

InitFormation ==
    /\ now = PlayTime
    /\ engine \in Formations
    /\ pre = engine
    /\ call = NoCall
    /\ steps = NoSteps
    /\ HostLoaded

NextFormation ==
    \/ \E in \in PlayKeys : ProcessInput(in)
    \/ \E deltaTime \in PlayDts : Update(deltaTime)

SpecFormation == InitFormation /\ [][NextFormation]_vars

(* a formation one step from an edge with a player bullet that, in the tick *)
(* of that step, kills the invader that reaches the edge: the one to the    *)
(* right when moving right, the two to the left when moving left            *)
EdgeKill(direction) ==
    IF direction > 0
    THEN [ Marching(ScreenWidth - EdgeMargin - GridSpacingX - 10, 1) EXCEPT
             !.state.Bullets = << PlayerBulletAt(ScreenWidth - EdgeMargin, 225) >> ]
    ELSE [ Marching(EdgeMargin + 10, -1) EXCEPT
             !.state.Bullets = << PlayerBulletAt(EdgeMargin, 225), PlayerBulletAt(EdgeMargin, 195) >> ]

(* the formations at and near the edges, with and without a kill at the *)
(* edge, and the last invader of a wave about to die                    *)
Marches == Formations \cup { EdgeKill(1), EdgeKill(-1), LastInvader(3, 400) }

InitMarch ==
    /\ now = PlayTime
    /\ engine \in Marches
    /\ pre = engine
    /\ call = NoCall
    /\ steps = NoSteps
    /\ HostLoaded

SpecMarch == InitMarch /\ [][NextFormation]_vars

(* Games in which a UFO is due: the last one 45 s ago, more than the longest *)
(* spawn threshold of 40 s, in a game that runs, or is paused, since         *)
(* gameStart; the parity of the second of game time picks the side          *)
UfoDue(gameStart, paused) ==
    [ GameInProgress(<< GridInvader(4, 5, 0, 0, 1) >>, << >>, 3, 0) EXCEPT
        !.lastUFOTime = PlayTime - 45000,
        !.gameStartTime = gameStart,
        !.state.Paused = paused ]

UfoGames == { UfoDue(gameStart, paused) : gameStart \in { 0, 1000 }, paused \in BOOLEAN }

InitUfo ==
    /\ now = PlayTime
    /\ engine \in UfoGames
    /\ pre = engine
    /\ call = NoCall
    /\ steps = NoSteps
    /\ HostLoaded

NextUfo ==
    \/ \E in \in PlayKeys : ProcessInput(in)
    \/ \E deltaTime \in PlayDts : Update(deltaTime)
    \/ \E w \in WallSteps : Elapse(w)

SpecUfo == InitUfo /\ [][NextUfo]_vars

(***************************************************************************)
(* handleCollisions as a function of the game state, on states with a UFO  *)
(* over the screen.  The UFO flies at Y = 50 and the grid starts below it, *)
(* so the states are built, as a caller holding the GameState can, with an *)
(* invader at the height of the UFO.                                       *)
(***************************************************************************)
(* a UFO at (400, 50) worth 100 or, spawned 3 ms later, 300 points; one *)
(* already hit; none                                                    *)
UfosOverhead ==
    { << NewUFO(Px(400), Px(50), 1, PlayTime - 1000) >>,
      << NewUFO(Px(400), Px(50), 1, PlayTime - 997) >>,
      << [NewUFO(Px(400), Px(50), 1, PlayTime - 1000) EXCEPT !.Alive = FALSE] >>,
      Nil }

(* player bullets over the UFO and the invader, over the UFO alone (two), *)
(* over neither; an enemy bullet and a dead player bullet over the UFO    *)
UfoBullets ==
    { PlayerBulletAt(400, 50), PlayerBulletAt(390, 44), PlayerBulletAt(388, 46),
      PlayerBulletAt(300, 300), EnemyBulletAt(390, 44),
      [PlayerBulletAt(390, 44) EXCEPT !.Alive = FALSE] }

UfoCollisions ==
    { [ GameInProgress(<< [NewInvader(InvaderTypeSmall, Px(404), Px(56), 30, 0)
                             EXCEPT !.Alive = alive] >>,
                       << b1, b2 >>, 3, 0) EXCEPT !.state.UFO = ufo ] :
        alive \in BOOLEAN, ufo \in UfosOverhead, b1 \in UfoBullets, b2 \in UfoBullets }

InitUfoCollide ==
    /\ now = PlayTime
    /\ engine \in UfoCollisions
    /\ pre = engine
    /\ call = NoCall
    /\ steps = NoSteps
    /\ HostLoaded

(* the three passes of handleCollisions *)
CollisionPass ==
    /\ StepsTaken < MaxSteps
    /\ engine' = handleCollisions(engine, now)
    /\ pre' = engine
    /\ call' = [op |-> "handleCollisions", in |-> NoKeys, dt |-> F64Zero,
                t |-> now, ticks |-> 0]
    /\ steps' = [steps EXCEPT !.updates = @ + 1]
    /\ UNCHANGED <<now, hostVars>>

SpecUfoCollide == InitUfoCollide /\ [][CollisionPass]_vars

(***************************************************************************)
(* ApplyInput as a function of the ship's velocity and the two keys.  The  *)
(* engine calls it with the fixed step only, which keeps the velocity a    *)
(* multiple of 20 px/s; the ships below also have the velocities between,  *)
(* which a caller holding the GameState can set.                           *)
(***************************************************************************)
SteerSpeeds == { -200, -190, -180, -40, -30, -20, -10, 0, 10, 20, 30, 40, 180, 190, 200 }

Steering(vx) ==
    [ GameInProgress(<< GridInvader(4, 5, 0, 0, 1) >>, << >>, 3, 0) EXCEPT
        !.state.Player[1].Velocity.X = vx ]

(* neither key, left, right, both *)
SteerKeys ==
    { [NoKeys EXCEPT !.left = left, !.right = right] : left \in BOOLEAN, right \in BOOLEAN }

InitSteer ==
    /\ now = PlayTime
    /\ engine \in { Steering(vx) : vx \in SteerSpeeds }
    /\ pre = engine
    /\ call = NoCall
    /\ steps = NoSteps
    /\ HostLoaded

NextSteer == \E in \in SteerKeys : ProcessInput(in)

SpecSteer == InitSteer /\ [][NextSteer]_vars

(***************************************************************************)
(* Games with bullets about to leave the screen: player bullets one tick   *)
(* (20 px) or less below the top, enemy bullets one tick (10 px) or less   *)
(* above the bottom, clear of the ship, and one in mid flight.             *)
(***************************************************************************)
EdgeBullets ==
    { PlayerBulletAt(300, 10), PlayerBulletAt(300, 20), PlayerBulletAt(300, 30),
      EnemyBulletAt(100, 590), EnemyBulletAt(100, 595), EnemyBulletAt(100, 300) }

BulletGames ==
    { GameInProgress(<< GridInvader(4, 5, 0, 0, 1) >>, << b1, b2 >>, 3, 0) :
        b1 \in EdgeBullets, b2 \in EdgeBullets }

InitBullets ==
    /\ now = PlayTime
    /\ engine \in BulletGames
    /\ pre = engine
    /\ call = NoCall
    /\ steps = NoSteps
    /\ HostLoaded

NextBullets ==
    \/ \E in \in PlayKeys : ProcessInput(in)
    \/ \E deltaTime \in PlayDts : Update(deltaTime)

SpecBullets == InitBullets /\ [][NextBullets]_vars

(***************************************************************************)
(* The last call, replayed: the engine states at the entry of the loop of  *)
(* Update and after each of its ticks.                                     *)
(***************************************************************************)
LastTrace ==
    IF call.op = "Update" THEN UpdateTrace(pre, call.dt, call.t) ELSE << engine >>

(***************************************************************************)
(* Whole steps of 1/20 s in a time x, over the reals: the first multiple   *)
(* of 2^-60 that is >= n/20 is n * FixedStep - floor(16 n / 5), FixedStep  *)
(* being 2^60/20 + 3.2 in units of 2^-60.                                  *)
(***************************************************************************)
StepMultiple(n) == F64SubExact(F64TimesExact(n, FixedStep), << 0, (16 * n) \div 5 >>)

WholeSteps(x) ==
    CHOOSE n \in 0..(LongFrame + 2) :
        F64Geq(x, StepMultiple(n)) /\ F64Less(x, StepMultiple(n + 1))

(* 2^-48 s, above the rounding error the additions and subtractions of one call add up to *)
RoundingSlack == << 0, 2 ^ 12 >>

RECURSIVE RepeatUpdate(_, _, _)
RepeatUpdate(e, n, t) ==
    IF n = 0 THEN e ELSE RepeatUpdate(UpdateOp(e, FixedStep, t), n - 1, t)

C2_SameGameState ==
    \A n \in 1..LongFrame :
        LET stepwise == RepeatUpdate(engine, n, now)
            atOnce == UpdateOp(engine, F64Times(n, FixedStep), now)
        IN  [stepwise.state EXCEPT !.DeltaTime = F64Zero] =
                [atOnce.state EXCEPT !.DeltaTime = F64Zero]

(***************************************************************************)
(* C3: while Paused, Update(dt) runs no tick and does not add dt to the    *)
(* accumulator: nothing but the DeltaTime reference field changes.         *)
(***************************************************************************)
C3_PausedUpdateFreezes ==
    (call.op = "Update" /\ pre.state.Paused) =>
        /\ call.ticks = 0
        /\ engine = [pre EXCEPT !.state.DeltaTime = call.dt]

C3_Witness ==
    /\ call.op = "Update"
    /\ pre.state.Paused
    /\ call.dt # FixedStep
    /\ steps.updates = 2
    /\ Len(engine.state.Bullets) > 0

(***************************************************************************)
(* C4: the mode changes only along AttractMode -> Playing, Playing ->      *)
(* GameOver and GameOver/HighScore -> AttractMode, in every call and in    *)
(* every tick of a call.                                                   *)
(***************************************************************************)
AllowedModeChange(m0, m1) ==
    \/ m0 = m1
    \/ m0 = AttractMode /\ m1 = Playing
    \/ m0 = Playing /\ m1 = GameOver
    \/ m0 \in {GameOver, HighScore} /\ m1 = AttractMode

C4_ModeTransitions ==
    LET trace == LastTrace
    IN  /\ AllowedModeChange(pre.state.Mode, engine.state.Mode)
        /\ \A k \in 1..(Len(trace) - 1) :
              AllowedModeChange(trace[k].state.Mode, trace[k + 1].state.Mode)

C4_Witness ==
    /\ call.op = "ProcessAnalogInput"
    /\ pre.state.Mode = GameOver
    /\ engine.state.Mode = AttractMode

(***************************************************************************)
(* C5: starting a new game from any prior state yields mode Playing, not   *)
(* paused, lives 3, score 0, wave 1, no bullets, no UFO, a live player at  *)
(* (screenWidth/2, screenHeight-40) and 55 live invaders in 5 rows of 11:  *)
(* row 0 small/30, rows 1-2 medium/20, rows 3-4 large/10.                  *)
(***************************************************************************)
StartedNewGame == pre.state.Mode = AttractMode /\ engine.state.Mode = Playing

C5_NewGame ==
    StartedNewGame =>
        LET gs == engine.state
            rowOf(k) == (k - 1) \div 11
            ys == {gs.Invaders[k].Position.Y : k \in 1..Len(gs.Invaders)}
        IN  /\ ~gs.Paused
            /\ gs.Lives = 3
            /\ gs.Score = 0
            /\ gs.Wave = 1
            /\ gs.Bullets = << >>
            /\ gs.UFO = Nil
            /\ PlayerLive(gs)
            /\ gs.Player[1].Position = [X |-> Px(ScreenWidth \div 2), Y |-> Px(ScreenHeight - 40)]
            /\ Len(gs.Invaders) = 55
            /\ Cardinality(ys) = 5
            /\ \A k \in 1..Len(gs.Invaders) :
                  /\ gs.Invaders[k].Alive
                  /\ Cardinality({j \in 1..Len(gs.Invaders) :
                        gs.Invaders[j].Position.Y = gs.Invaders[k].Position.Y}) = 11
                  /\ rowOf(k) = 0 =>
                        gs.Invaders[k].Type = InvaderTypeSmall /\ gs.Invaders[k].Points = 30
                  /\ rowOf(k) \in {1, 2} =>
                        gs.Invaders[k].Type = InvaderTypeMedium /\ gs.Invaders[k].Points = 20
                  /\ rowOf(k) \in {3, 4} =>
                        gs.Invaders[k].Type = InvaderTypeLarge /\ gs.Invaders[k].Points = 10

(* a game started after a lost game whose entities were still in the state *)
C5_Witness ==
    /\ StartedNewGame
    /\ pre.state.Score > 0
    /\ pre.state.Lives = 0
    /\ pre.state.Bullets # << >>

(***************************************************************************)
(* handlePlayerBulletCollisions as a function of the game state.  The grid *)
(* keeps invaders 40 x 30 apart and a bullet is 2 x 8, so no bullet of a   *)
(* game overlaps two invaders; the states below are built with invaders    *)
(* that overlap one another, as a caller holding the GameState can.        *)
(***************************************************************************)
CollideInvaders(largeFirst, alive) ==
    LET large == [NewInvader(InvaderTypeLarge, Px(400), Px(200), 10, 0)
                    EXCEPT !.Alive = alive[1]]
        small == [NewInvader(InvaderTypeSmall, Px(404), Px(204), 30, 0)
                    EXCEPT !.Alive = alive[2]]
        medium == [NewInvader(InvaderTypeMedium, Px(460), Px(200), 20, 0)
                    EXCEPT !.Alive = alive[3]]
    IN  IF largeFirst THEN << large, small, medium >> ELSE << small, large, medium >>

(* bullets over the large and the small invader, over the medium one, over none, *)
(* an enemy bullet and a dead bullet                                             *)
CollideBullets ==
    { PlayerBulletAt(402, 204), PlayerBulletAt(405, 206), PlayerBulletAt(460, 204),
      PlayerBulletAt(300, 100), EnemyBulletAt(402, 204),
      [PlayerBulletAt(402, 204) EXCEPT !.Alive = FALSE] }

CollidingGames ==
    { GameInProgress(CollideInvaders(largeFirst, alive), << b1, b2 >>, 3, 0) :
        largeFirst \in BOOLEAN, alive \in [1..3 -> BOOLEAN],
        b1 \in CollideBullets, b2 \in CollideBullets }

InitCollide ==
    /\ now = PlayTime
    /\ engine \in CollidingGames
    /\ pre = engine
    /\ call = NoCall
    /\ steps = NoSteps
    /\ HostLoaded

(* the first pass of handleCollisions *)
PlayerBulletPass ==
    /\ StepsTaken < MaxSteps
    /\ engine' = handlePlayerBulletCollisions(engine)
    /\ pre' = engine
    /\ call' = [op |-> "handlePlayerBulletCollisions", in |-> NoKeys, dt |-> F64Zero,
                t |-> now, ticks |-> 0]
    /\ steps' = [steps EXCEPT !.updates = @ + 1]
    /\ UNCHANGED <<now, hostVars>>

SpecCollide == InitCollide /\ [][PlayerBulletPass]_vars

(***************************************************************************)
(* Intersects as the collision pass uses it: one player bullet, 2 x 8, and *)
(* one large invader, 24 x 16 at (400, 200), the bullet far from, 1/1000   *)
(* px short of, exactly on and 1/1000 px past each edge of the invader.    *)
(***************************************************************************)
TouchXs == { Px(300), Px(387) - 1, Px(387), Px(387) + 1, Px(400),
             Px(413) - 1, Px(413), Px(413) + 1 }

TouchYs == { Px(100), Px(188) - 1, Px(188), Px(188) + 1, Px(200),
             Px(212) - 1, Px(212), Px(212) + 1 }

TouchingGames ==
    { GameInProgress(<< NewInvader(InvaderTypeLarge, Px(400), Px(200), 10, 0) >>,
                     << NewBullet(x, y, 0, -400, TRUE) >>, 3, 0) :
        x \in TouchXs, y \in TouchYs }

InitTouch ==
    /\ now = PlayTime
    /\ engine \in TouchingGames
    /\ pre = engine
    /\ call = NoCall
    /\ steps = NoSteps
    /\ HostLoaded

SpecTouch == InitTouch /\ [][PlayerBulletPass]_vars

(***************************************************************************)
(* C6: in the player-bullet-versus-invader pass each live player bullet    *)
(* kills at most one invader even when it overlaps several: as many        *)
(* invaders die as player bullets, the score rises by the points of the    *)
(* invaders that died, and a bullet that no earlier bullet interferes with *)
(* dies with the first live invader it overlaps in list order, while the   *)
(* others it overlaps stay alive unless another bullet overlaps them.      *)
(***************************************************************************)
C6_OneInvaderPerBullet ==
    call.op = "handlePlayerBulletCollisions" =>
        LET g0 == pre.state
            g1 == engine.state
            invaders == 1..Len(g0.Invaders)
            bullets == 1..Len(g0.Bullets)
            shooters == {i \in bullets : g0.Bullets[i].Alive /\ g0.Bullets[i].IsPlayerBullet}
            overlapped(i) == {j \in invaders :
                                /\ g0.Invaders[j].Alive
                                /\ Intersects(g0.Bullets[i].Bounds, g0.Invaders[j].Bounds)}
            killed == {j \in invaders : g0.Invaders[j].Alive /\ ~g1.Invaders[j].Alive}
            spent == {i \in bullets : g0.Bullets[i].Alive /\ ~g1.Bullets[i].Alive}
        IN  /\ g1.Invaders = [j \in invaders |->
                                [g0.Invaders[j] EXCEPT !.Alive = g1.Invaders[j].Alive]]
            /\ g1.Bullets = [i \in bullets |->
                                [g0.Bullets[i] EXCEPT !.Alive = g1.Bullets[i].Alive]]
            /\ \A j \in invaders : g1.Invaders[j].Alive => g0.Invaders[j].Alive
            /\ \A i \in bullets : g1.Bullets[i].Alive => g0.Bullets[i].Alive
            /\ spent \subseteq shooters
            /\ Cardinality(killed) = Cardinality(spent)
            /\ killed \subseteq UNION {overlapped(i) : i \in spent}
            /\ g1.Score = g0.Score + SumPoints(SelectSeq(g0.Invaders, IsAlive))
                                   - SumPoints(SelectSeq(g1.Invaders, IsAlive))
            /\ \A i \in shooters :
                  (/\ overlapped(i) # {}
                   /\ \A h \in shooters : h < i => overlapped(h) \cap overlapped(i) = {}) =>
                      /\ i \in spent
                      /\ MinOf(overlapped(i)) \in killed
                      /\ \A j \in overlapped(i) \ {MinOf(overlapped(i))} :
                            j \in killed => \E h \in shooters \ {i} : j \in overlapped(h)

(* one live player bullet over two live invaders: the first in the list, worth 30, *)
(* died and the other is alive                                                     *)
C6_Witness ==
    /\ call.op = "handlePlayerBulletCollisions"
    /\ pre.state.Invaders[1].Alive /\ pre.state.Invaders[2].Alive
    /\ pre.state.Invaders[1].Type = InvaderTypeSmall
    /\ pre.state.Bullets[1] = PlayerBulletAt(402, 204)
    /\ pre.state.Bullets[2] = EnemyBulletAt(402, 204)
    /\ ~engine.state.Invaders[1].Alive
    /\ engine.state.Invaders[2].Alive
    /\ engine.state.Score = pre.state.Score + 30

(* the live enemy bullets over the live player of the game state gs *)
EnemyHits(gs) ==
    {i \in 1..Len(gs.Bullets) :
        /\ gs.Bullets[i].Alive
        /\ ~gs.Bullets[i].IsPlayerBullet
        /\ Intersects(gs.Bullets[i].Bounds, gs.Player[1].Bounds)}

(***************************************************************************)
(* C7: when a live enemy bullet overlaps the live player in the collision  *)
(* pass and lives > 1, then at the end of the pass lives is one less,      *)
(* however many bullets overlap, a new live player stands at               *)
(* (screenWidth/2, screenHeight-40), no enemy bullet is left in the list   *)
(* and the player bullets of the list are all still there, in order.       *)
(***************************************************************************)
C7_HitWithLivesLeft ==
    LET trace == LastTrace
    IN  \A k \in PlayingTicks(trace) :
            LET s == TickStages(trace[k], call.t)
                b == s.beforeEnemyBullets
                a == s.afterCollisions
            IN  (PlayerLive(b) /\ b.Lives > 1 /\ EnemyHits(b) # {}) =>
                    /\ a.Lives = b.Lives - 1
                    /\ PlayerLive(a)
                    /\ a.Player[1].Position =
                          [X |-> Px(ScreenWidth \div 2), Y |-> Px(ScreenHeight - 40)]
                    /\ \A i \in 1..Len(a.Bullets) : a.Bullets[i].IsPlayerBullet
                    /\ a.Bullets = SelectSeq(b.Bullets, IsPlayerBullet)

(* a tick in which two enemy bullets were over the player, with lives left and *)
(* player bullets in flight                                                    *)
C7_Witness ==
    /\ call.op = "Update"
    /\ LET trace == LastTrace
       IN  \E k \in PlayingTicks(trace) :
              LET b == TickStages(trace[k], call.t).beforeEnemyBullets
              IN  /\ PlayerLive(b)
                  /\ b.Lives > 1
                  /\ Cardinality(EnemyHits(b)) >= 2
                  /\ \E i \in 1..Len(b.Bullets) : b.Bullets[i].IsPlayerBullet

(***************************************************************************)
(* C8: when an enemy bullet hits the player while lives = 1, the player is *)
(* dead, lives is 0, the mode is GameOver with GameEnded, and there is no  *)
(* respawn: in the rest of the call and in every state with no life left,  *)
(* that is until a new game is started, there is no live player and no     *)
(* play.                                                                   *)
(***************************************************************************)
C8_LastLifeLost ==
    LET trace == LastTrace
    IN  /\ engine.state.Lives = 0 =>
              /\ ~PlayerLive(engine.state)
              /\ engine.state.Mode \in {GameOver, AttractMode}
              /\ engine.state.Mode = GameOver => engine.state.GameEnded
        /\ \A k \in PlayingTicks(trace) :
              LET s == TickStages(trace[k], call.t)
                  b == s.beforeEnemyBullets
                  a == s.afterCollisions
              IN  (PlayerLive(b) /\ b.Lives = 1 /\ EnemyHits(b) # {}) =>
                      /\ a.Lives = 0
                      /\ a.Mode = GameOver
                      /\ a.GameEnded
                      /\ a.Player # Nil /\ ~a.Player[1].Alive
                      /\ \A m \in (k + 1)..Len(trace) :
                            /\ trace[m].state.Lives = 0
                            /\ trace[m].state.Mode = GameOver
                            /\ trace[m].state.GameEnded
                            /\ trace[m].state.Player # Nil
                            /\ ~trace[m].state.Player[1].Alive

(* the last life lost in the first tick of a call that ran another tick after it *)
C8_Witness ==
    /\ call.op = "Update"
    /\ call.ticks >= 2
    /\ pre.state.Lives = 1
    /\ PlayerLive(pre.state)
    /\ engine.state.Lives = 0
    /\ LET b == TickStages(pre, call.t).beforeEnemyBullets
       IN  PlayerLive(b) /\ EnemyHits(b) # {}

(* no invader of the list is alive *)
NoneAlive(invaders) == \A j \in 1..Len(invaders) : ~invaders[j].Alive

(* a list of 55 live invaders *)
FullGrid(invaders) ==
    /\ Len(invaders) = GridRows * GridCols
    /\ \A j \in 1..Len(invaders) : invaders[j].Alive

(***************************************************************************)
(* C9: each time the invader list is empty at the wave check of a tick in  *)
(* play, the wave number rises by exactly 1 and the list is a full grid    *)
(* again, so that the next ticks do not advance it; in every other tick    *)
(* and in every input call that starts no new game the wave number stays.  *)
(***************************************************************************)
C9_OneWavePerClearance ==
    LET trace == LastTrace
    IN  /\ call.op \in {"ProcessInput", "ProcessAnalogInput"} =>
              \/ engine.state.Wave = pre.state.Wave
              \/ StartedNewGame /\ engine.state.Wave = 1
        /\ \A k \in 1..(Len(trace) - 1) :
              IF k \in PlayingTicks(trace)
              THEN LET cleared == TickStages(trace[k], call.t).afterCollisions.Invaders = << >>
                   IN  /\ trace[k + 1].state.Wave =
                             trace[k].state.Wave + (IF cleared THEN 1 ELSE 0)
                       /\ cleared => FullGrid(trace[k + 1].state.Invaders)
              ELSE trace[k + 1].state.Wave = trace[k].state.Wave

(* a call whose first tick cleared the list and advanced the wave, and that ran *)
(* further ticks on the new grid                                                *)
C9_Witness ==
    /\ call.op = "Update"
    /\ call.ticks >= 2
    /\ pre.state.Mode = Playing
    /\ engine.state.Mode = Playing
    /\ pre.state.Invaders # << >>
    /\ NoneAlive(pre.state.Invaders)
    /\ engine.state.Wave = pre.state.Wave + 1

(* the effects of the wave change between the game state c0 at the wave check and c1 after it *)
WaveAdvanced(c0, c1, t) ==
    /\ c1.Wave = c0.Wave + 1
    /\ FullGrid(c1.Invaders)
    /\ c1.Invaders = initializeInvaders(t)
    /\ c0.Player # Nil =>
          /\ c1.Player[1].Position = [X |-> Px(ScreenWidth \div 2), Y |-> Px(ScreenHeight - 40)]
          /\ c1.Player[1].Velocity.X = 0
    /\ \A i \in 1..Len(c1.Bullets) : ~c1.Bullets[i].IsPlayerBullet
    /\ c1.Bullets = SelectSeq(c0.Bullets, IsEnemyBullet)
    /\ c1.Lives = c0.Lives
    /\ c1.Score = c0.Score

(* the ticks of the trace in whose collision pass the last live invader died *)
LastKills(trace, t) ==
    {k \in PlayingTicks(trace) :
        LET s == TickStages(trace[k], t)
        IN  ~NoneAlive(s.atCollisions.Invaders) /\ NoneAlive(s.afterCollisions.Invaders)}

PassedStates ==
    LET trace == LastTrace
    IN  {pre.state, engine.state}
          \cup {trace[k].state : k \in 1..Len(trace)}
          \cup UNION { LET s == TickStages(trace[k], call.t)
                       IN  {s.atCollisions, s.afterPlayerBullets, s.beforeEnemyBullets,
                            s.afterCollisions, s.afterWaveCheck} : k \in PlayingTicks(trace) }

(***************************************************************************)
(* C11: in every reachable state, between calls and inside a tick, after   *)
(* any sequence of scoring, game over, new game and reset to attract mode, *)
(* HighScore >= Score.                                                     *)
(***************************************************************************)
C11_HighScoreAtLeastScore == \A gs \in PassedStates : gs.HighScore >= gs.Score

(* a call that scored above the high score and ended the game *)
C11_Witness ==
    /\ call.op = "Update"
    /\ pre.state.Mode = Playing
    /\ engine.state.Mode = GameOver
    /\ engine.state.Score > pre.state.HighScore
    /\ engine.state.HighScore = engine.state.Score

(* the points of the invaders that are alive in the list before and dead in the list after *)
KillPoints(before, after) ==
    SumPoints(ToSeq([ i \in 1..Len(before) |->
        [before[i] EXCEPT !.Points = IF before[i].Alive /\ ~after[i].Alive THEN @ ELSE 0] ]))

(* the points of the UFO when the UFO pass of the tick destroyed it *)
UfoKillPoints(s) ==
    LET u0 == s.afterPlayerBullets.UFO
        u1 == s.beforeEnemyBullets.UFO
    IN  IF u0 # Nil /\ u0[1].Alive /\ (u1 = Nil \/ ~u1[1].Alive) THEN u0[1].Points ELSE 0

(***************************************************************************)
(* C12: the score never decreases while a game is in progress: a tick adds *)
(* to it the points, all positive, of the invaders and of the UFO it       *)
(* destroyed and nothing else changes it, except the start of a new game,  *)
(* which sets it to 0; the high score never decreases, new games and       *)
(* resets to attract mode included.                                        *)
(***************************************************************************)
C12_ScoresNeverDecrease ==
    LET trace == LastTrace
    IN  /\ engine.state.HighScore >= pre.state.HighScore
        /\ \A k \in 1..(Len(trace) - 1) :
              /\ trace[k + 1].state.HighScore >= trace[k].state.HighScore
              /\ trace[k + 1].state.Score >= trace[k].state.Score
              /\ trace[k + 1].state.Score =
                    trace[k].state.Score +
                      IF k \in PlayingTicks(trace)
                      THEN LET s == TickStages(trace[k], call.t)
                           IN  KillPoints(s.atCollisions.Invaders,
                                          s.afterPlayerBullets.Invaders)
                                 + UfoKillPoints(s)
                      ELSE 0
        /\ \A gs \in PassedStates :
              /\ \A i \in 1..Len(gs.Invaders) : gs.Invaders[i].Points \in {10, 20, 30}
              /\ gs.UFO # Nil => gs.UFO[1].Points \in {100, 150, 200, 300}
        /\ call.op = "Update" => trace[1].state.Score = pre.state.Score
        /\ call.op # "Update" =>
              \/ engine.state.Score = pre.state.Score
              \/ StartedNewGame /\ engine.state.Score = 0

(* a call that scored in a game played under the high score of an earlier game *)
C12_Witness ==
    /\ call.op = "Update"
    /\ engine.state.Score > pre.state.Score
    /\ engine.state.HighScore = pre.state.HighScore
    /\ engine.state.HighScore > engine.state.Score

(* bounds.x = position.x - width/2 and bounds.y = position.y - height/2 *)
Centred(ent) ==
    /\ ent.Bounds.X = ent.Position.X - ent.Bounds.Width \div 2
    /\ ent.Bounds.Y = ent.Position.Y - ent.Bounds.Height \div 2

(***************************************************************************)
(* C13 as stated: in every state reached through engine operations, the    *)
(* bounds of the player, of every invader, of every bullet and of the UFO  *)
(* are centred on the position of the entity, also after a clamp at a      *)
(* screen edge in PlayerShip.Update, after NextWave and after              *)
(* ProcessAnalogInput.  The three fail for the player: each writes the     *)
(* position and leaves the bounds.                                         *)
(***************************************************************************)
C13_BoundsFollowPosition ==
    \A gs \in PassedStates :
        /\ gs.Player # Nil => Centred(gs.Player[1])
        /\ \A i \in 1..Len(gs.Invaders) : Centred(gs.Invaders[i])
        /\ \A i \in 1..Len(gs.Bullets) : Centred(gs.Bullets[i])
        /\ gs.UFO # Nil => Centred(gs.UFO[1])

(* the live player of the game state gs is between the two limits of PlayerShip.Update *)
WithinScreen(gs) ==
    PlayerLive(gs) =>
        /\ gs.Player[1].Position.X >= gs.Player[1].Bounds.Width \div 2
        /\ gs.Player[1].Position.X <= Px(ScreenWidth) - gs.Player[1].Bounds.Width \div 2

(* where the velocity of the ship p carries it in one tick, limits aside *)
Unclamped(p) == p.Position.X + p.Velocity.X * FixedDeltaTime

(***************************************************************************)
(* C14: the position.x of the live player is in                            *)
(* [halfWidth, screenWidth - halfWidth], halfWidth = 12, in every state,   *)
(* after every PlayerShip.Update and after ProcessAnalogInput with any     *)
(* analog position, in and out of [-1, 1]; and when Update brings the      *)
(* position back to a limit the horizontal velocity is 0 afterwards.       *)
(***************************************************************************)
C14_PlayerWithinScreen ==
    LET trace == LastTrace
        half == ShipWidth \div 2
    IN  /\ half = Px(12)
        /\ \A gs \in PassedStates : WithinScreen(gs)
        /\ \A k \in PlayingTicks(trace) :
              PlayerLive(trace[k].state) =>
                  LET p0 == trace[k].state.Player[1]
                      p1 == updatePlayer(trace[k], FixedDeltaTime, call.t).state.Player[1]
                  IN  /\ p1.Position.X >= half
                      /\ p1.Position.X <= Px(ScreenWidth) - half
                      /\ Unclamped(p0) < half => p1.Position.X = half /\ p1.Velocity.X = 0
                      /\ Unclamped(p0) > Px(ScreenWidth) - half =>
                            p1.Position.X = Px(ScreenWidth) - half /\ p1.Velocity.X = 0
        /\ \A analogX \in {-30, -10, -7, 0, 3, 10, 30} : \A fire \in BOOLEAN :
              WithinScreen(ProcessAnalogInputOp(engine, analogX, fire, fire, FALSE, now).state)

(* a tick in which the velocity carried the player over the right limit *)
C14_Witness ==
    /\ call.op = "Update"
    /\ LET trace == LastTrace
       IN  \E k \in PlayingTicks(trace) :
              /\ PlayerLive(trace[k].state)
              /\ Unclamped(trace[k].state.Player[1]) > Px(ScreenWidth) - ShipWidth \div 2
    /\ PlayerLive(engine.state)
    /\ engine.state.Player[1].Position.X = Px(ScreenWidth) - ShipWidth \div 2
    /\ engine.state.Player[1].Velocity.X = 0

(* position, velocity and bounds of the entity a are those of the entity b *)
SamePlace(a, b) ==
    /\ a.Position = b.Position
    /\ a.Bounds = b.Bounds
    /\ "Velocity" \in DOMAIN a => a.Velocity = b.Velocity

(* a UFO a player bullet destroyed, as the next updateUFO finds it *)
DeadUFOs ==
    { [NewUFO(Px(x), Px(50), d, now) EXCEPT !.Alive = FALSE] : x \in {-50, 400}, d \in {-1, 1} }

(***************************************************************************)
(* C15: for an entity with alive = false, PlayerShip.Update, ApplyInput    *)
(* and TryShoot, Invader.Update, Move and TryShoot, Bullet.Update and      *)
(* UFO.Update leave position, velocity and bounds unchanged and create no  *)
(* bullet: applied to every dead player, invader and bullet of every state *)
(* the engine passes through, and to destroyed UFOs.                       *)
(***************************************************************************)
C15_DeadEntitiesUntouched ==
    /\ \A gs \in PassedStates :
          /\ (gs.Player # Nil /\ ~gs.Player[1].Alive) =>
                LET p == gs.Player[1]
                IN  /\ \A t \in {now, now + 1000} :
                          /\ SamePlace(PlayerUpdate(p, FixedDeltaTime, Px(ScreenWidth), t), p)
                          /\ SamePlace(PlayerTryShoot(p, t).ship, p)
                          /\ PlayerTryShoot(p, t).bullets = << >>
                    /\ \A left \in BOOLEAN, right \in BOOLEAN :
                          SamePlace(ApplyInput(p, left, right, FixedDeltaTime), p)
          /\ \A k \in 1..Len(gs.Invaders) :
                ~gs.Invaders[k].Alive =>
                    LET i == gs.Invaders[k]
                    IN  /\ SamePlace(InvaderUpdate(i, FixedDeltaTime), i)
                        /\ \A d \in {<< Px(10), 0 >>, << -Px(10), 0 >>, << 0, Px(20) >>} :
                              SamePlace(InvaderMove(i, d[1], d[2]), i)
                        /\ SamePlace(InvaderTryShoot(i, FixedDeltaTime, now).invader, i)
                        /\ InvaderTryShoot(i, FixedDeltaTime, now).bullets = << >>
          /\ \A k \in 1..Len(gs.Bullets) :
                ~gs.Bullets[k].Alive =>
                    SamePlace(BulletUpdate(gs.Bullets[k], FixedDeltaTime,
                                           Px(ScreenWidth), Px(ScreenHeight)), gs.Bullets[k])
    /\ \A u \in DeadUFOs : \A t \in {now, now + 1000 + UfoMaxLifetime} :
          SamePlace(UFOUpdate(u, FixedDeltaTime, Px(ScreenWidth), t), u)

(* a tick that left a dead player, a dead invader and dead bullets of both sides *)
C15_Witness ==
    /\ call.op = "Update"
    /\ \E gs \in PassedStates :
          /\ gs.Player # Nil /\ ~gs.Player[1].Alive
          /\ gs.Player[1].Velocity.X # 0
          /\ \E k \in 1..Len(gs.Invaders) : ~gs.Invaders[k].Alive
          /\ \E k \in 1..Len(gs.Bullets) :
                ~gs.Bullets[k].Alive /\ gs.Bullets[k].IsPlayerBullet
          /\ \E k \in 1..Len(gs.Bullets) :
                ~gs.Bullets[k].Alive /\ ~gs.Bullets[k].IsPlayerBullet

(* the last call asked a live, unpaused player in Playing mode to fire *)
FireRequested ==
    /\ pre.state.Mode = Playing
    /\ \/ call.op = "ProcessInput" /\ call.in.fireJust
       \/ call.op = "ProcessAnalogInput" /\ call.in.fire
    /\ ~engine.state.Paused
    /\ PlayerLive(pre.state)

(* 1/fireRate = 0.25 s, in ms *)
Cooldown == 1000 \div ShipFireRate

(***************************************************************************)
(* C16 as stated, its last part: two player bullets are never created less *)
(* than one cooldown (1/fireRate = 0.25 s) apart.  It fails across a       *)
(* respawn: the ship that replaces a hit ship can shoot at once.           *)
(***************************************************************************)
C16_ShotsOneCooldownApart ==
    \A i \in 1..(Len(steps.shots) - 1) : steps.shots[i + 1].t - steps.shots[i].t >= Cooldown

(***************************************************************************)
(* C16, amended: a fire request on a live player whose CanShoot flag is    *)
(* set adds exactly one player bullet at (player.x, player.y - height/2)   *)
(* with velocity (0, -400), clears the flag and records the time of the    *)
(* shot; a fire request on a ship whose flag is clear adds no bullet; the  *)
(* flag is set again only by the PlayerShip.Update of a tick that runs     *)
(* more than 0.25 s after the shot; so two bullets of one ship are never   *)
(* created 0.25 s or less apart.  A ship made by respawn or by a new game  *)
(* starts with the flag set.                                               *)
(***************************************************************************)
C16_FireAndCooldown ==
    LET trace == LastTrace
    IN  /\ FireRequested =>
              LET p0 == pre.state.Player[1]
                  p1 == engine.state.Player[1]
              IN  IF p0.CanShoot
                  THEN /\ engine.state.Bullets = pre.state.Bullets \o
                             << NewBullet(p1.Position.X,
                                          p1.Position.Y - p1.Bounds.Height \div 2,
                                          0, -400, TRUE) >>
                       /\ ~p1.CanShoot
                       /\ p1.LastShotTime = call.t
                  ELSE /\ engine.state.Bullets = pre.state.Bullets
                       /\ ~p1.CanShoot
                       /\ p1.LastShotTime = p0.LastShotTime
        /\ (call.op \in {"ProcessInput", "ProcessAnalogInput"} /\ PlayerLive(pre.state)
              /\ PlayerLive(engine.state) /\ ~StartedNewGame) =>
              (engine.state.Player[1].CanShoot => pre.state.Player[1].CanShoot)
        /\ \A k \in PlayingTicks(trace) :
              PlayerLive(trace[k].state) =>
                  LET p0 == trace[k].state.Player[1]
                      p1 == updatePlayer(trace[k], FixedDeltaTime, call.t).state.Player[1]
                  IN  p1.CanShoot <=> (p0.CanShoot \/ call.t - p0.LastShotTime > Cooldown)
        /\ \A i \in 1..(Len(steps.shots) - 1) :
              steps.shots[i + 1].ship = steps.shots[i].ship =>
                  steps.shots[i + 1].t - steps.shots[i].t > Cooldown
        /\ (call.op = "Update" /\ steps.ships > 0 /\ PlayerLive(engine.state)
              /\ Respawns(trace, call.t) > 0 /\ engine.state.Mode = Playing) =>
              \/ engine.state.Player[1].CanShoot
              \/ engine.state.Player[1].LastShotTime = call.t

(* the second shot of a ship, after a first shot, a cooldown and a tick *)
C16_Witness ==
    /\ FireRequested
    /\ Len(steps.shots) = 2
    /\ steps.shots[2].ship = steps.shots[1].ship
    /\ steps.shots[2].t = call.t
    /\ Len(engine.state.Bullets) = Len(pre.state.Bullets) + 1

(* ------------------------------------------------------------------------ *)
(* C17: the formation's cadence                                             *)
(* ------------------------------------------------------------------------ *)

(* the largest roster of a wave, and the ticks after which its move timer   *)
(* has passed the longest interval, (FullRoster + 5) / 55 s                 *)
FullRoster == GridRows * GridCols

LongestWait ==
    (InvaderMoveInterval * (FullRoster + 5)) \div (55 * BaseInvaderSpeed * FixedDeltaTime) + 2

(* the invaders of tick k of the trace as the formation step found and left *)
(* them, with the move timer before and after                               *)
FormationTick(trace, k) ==
    LET e0 == trace[k]
        e1 == updateInvaders(updatePlayer(e0, FixedDeltaTime, call.t), FixedDeltaTime, call.t)
        roster == SelectSeq(e0.state.Invaders, IsAlive)
    IN  [ roster |-> roster,
          after |-> e1.state.Invaders,
          timer0 |-> e0.invaderMoveTimer,
          timer1 |-> e1.invaderMoveTimer,
          waited |-> (e0.invaderMoveTimer + FixedDeltaTime) \div FixedDeltaTime ]

(* the step of one invader: ten pixels sideways, or twenty down *)
FormationStep(a, b) ==
    \/ /\ b.Position.Y = a.Position.Y
       /\ b.Position.X - a.Position.X \in {InvaderMoveDistance, -InvaderMoveDistance}
    \/ /\ b.Position.X = a.Position.X
       /\ b.Position.Y = a.Position.Y + InvaderDropDistance

(* C17: on every tick of play with N >= 1 invaders left, the formation      *)
(* steps exactly when the move timer, the tick added, has reached           *)
(* moveInterval / (baseSpeed * 55 / (N + 5)), as the float64 values compare;*)
(* a step moves every invader and restarts the timer from 0, no step leaves *)
(* every invader in place and keeps the time added; and the interval is     *)
(* strictly shorter for a smaller N                                         *)
C17_FormationCadence ==
    /\ \A k \in PlayingTicks(LastTrace) :
         LET f == FormationTick(LastTrace, k)
             n == Len(f.roster)
             due == F64Geq(MoveTimerValue(f.waited), MoveIntervalValue(n))
         IN  n >= 1 =>
               /\ Len(f.after) = n
               /\ f.timer0 % FixedDeltaTime = 0 /\ f.waited <= LongestWait
               /\ due => /\ f.timer1 = 0
                         /\ \A i \in 1..n : FormationStep(f.roster[i], f.after[i])
               /\ ~due => /\ f.timer1 = f.timer0 + FixedDeltaTime
                          /\ \A i \in 1..n : f.after[i].Position = f.roster[i].Position
    /\ StepsTaken = 0 =>
         LET timers == MoveTimerValues(LongestWait)
             intervals == ToSeq([ n \in 1..FullRoster |-> MoveIntervalValue(n) ])
         IN  /\ \A n \in 1..(FullRoster - 1) : F64Less(intervals[n], intervals[n + 1])
             /\ \A n \in 1..FullRoster : \A w \in 1..LongestWait :
                  MoveDue(w * FixedDeltaTime, n) <=> F64Geq(timers[w], intervals[n])

(* seventeen invaders, seven ticks on the timer, an interval of 0.4: the    *)
(* first tick of the update adds the eighth 0.05, a sum of                  *)
(* 0.39999999999999997 that has not reached the interval, and makes no      *)
(* step; the second steps the formation ten pixels to the right and         *)
(* restarts the timer                                                       *)
C17_Witness ==
    /\ call.op = "Update" /\ call.ticks = 2
    /\ pre.state.Mode = Playing
    /\ Len(SelectSeq(pre.state.Invaders, IsAlive)) = 17
    /\ pre.invaderMoveTimer = 7 * FixedDeltaTime
    /\ MoveIntervalValue(17) = F64Times(8, FixedStep)
    /\ F64Less(MoveTimerValue(8), MoveIntervalValue(17))
    /\ LastTrace[2].invaderMoveTimer = 8 * FixedDeltaTime
    /\ LastTrace[2].state.Invaders[1].Position = pre.state.Invaders[1].Position
    /\ engine.invaderMoveTimer = 0
    /\ Len(engine.state.Invaders) = 17
    /\ engine.state.Invaders[1].Position.X
         = pre.state.Invaders[1].Position.X + InvaderMoveDistance

(* ------------------------------------------------------------------------ *)
(* C18: back to attract mode                                                *)
(* ------------------------------------------------------------------------ *)

(* no player, no UFO, no invaders, no bullets, neither started nor ended *)
Cleared(gs) ==
    /\ gs.Player = << >>
    /\ gs.UFO = << >>
    /\ gs.Invaders = << >>
    /\ gs.Bullets = << >>
    /\ ~gs.GameStarted
    /\ ~gs.GameEnded

(* C18: an input call, ProcessInput or ProcessAnalogInput, that takes the   *)
(* mode from GameOver or HighScore to AttractMode leaves no player, no UFO, *)
(* no invaders, no bullets and GameStarted = GameEnded = false; and every   *)
(* state in AttractMode has no player and empty collections                 *)
C18_AttractModeIsCleared ==
    /\ ( /\ call.op \in {"ProcessInput", "ProcessAnalogInput"}
         /\ pre.state.Mode \in {GameOver, HighScore}
         /\ engine.state.Mode = AttractMode )
       => Cleared(engine.state)
    /\ engine.state.Mode = AttractMode
       => /\ engine.state.Player = << >>
          /\ engine.state.UFO = << >>
          /\ engine.state.Invaders = << >>
          /\ engine.state.Bullets = << >>

(* ------------------------------------------------------------------------ *)
(* C19: ENTER in attract mode                                               *)
(* ------------------------------------------------------------------------ *)

(* C19: a step of the host loop that reads Enter just pressed while the     *)
(* mode is AttractMode leaves the input call with the mode Playing and a    *)
(* freshly initialised game                                                 *)
C19_EnterStartsGame ==
    \A i \in 1..Len(game.ticks) :
        (game.ticks[i].input.EnterJustPressed /\ game.ticks[i].before = AttractMode)
          => (game.ticks[i].after = Playing /\ game.ticks[i].fresh)

(* ------------------------------------------------------------------------ *)
(* C20: just-pressed flags                                                  *)
(* ------------------------------------------------------------------------ *)

(* the keys behind each just-pressed flag of the InputState *)
FlagKeys == { {"SpaceBar"}, {"EnterKey"}, {"PKey", "EscapeKey"} }

(* C20: in every interleaving of key events, focus changes and frames, a    *)
(* GetInputState call reports a flag just pressed exactly when a key of the *)
(* flag was pressed since the call before it: each press is reported by the *)
(* first call after it and by no other, and a key merely held is not        *)
(* reported again                                                           *)
C20_JustPressedEdgeTriggered ==
    \A i \in 1..Len(game.ticks) : \A keys \in FlagKeys :
        (\E k \in keys : Reported(game.ticks[i].input, k))
          <=> (\E k \in keys : game.ticks[i].owed[k] >= 1)

(* ------------------------------------------------------------------------ *)
(* C21: input and the tick                                                  *)
(* ------------------------------------------------------------------------ *)

(* C21: every tick of play begins by applying the recorded input to the     *)
(* player, before the player's physics update: the ship that leaves the     *)
(* player update of a tick is the ship that entered the tick with           *)
(* processPlayingInput applied to it and then updated, so an Update of k    *)
(* ticks applies the recorded movement k times                              *)
C21_InputAppliedEachTick ==
    \A k \in PlayingTicks(LastTrace) :
        LET e0 == LastTrace[k]
            asRun == updatePlayer(e0, FixedDeltaTime, call.t)
            asClaimed == updatePlayer(processPlayingInput(e0, call.t), FixedDeltaTime, call.t)
        IN  PlayerLive(e0.state) =>
              /\ asRun.state.Player[1].Velocity = asClaimed.state.Player[1].Velocity
              /\ asRun.state.Player[1].Position = asClaimed.state.Player[1].Position

(* ------------------------------------------------------------------------ *)
(* C22: ticks outside play                                                  *)
(* ------------------------------------------------------------------------ *)

(* the modes whose tick is empty *)
IdleModes == { AttractMode, GameOver, HighScore }

(* C22: a tick run while the mode is AttractMode, GameOver or HighScore     *)
(* leaves the game state and every field of the engine as they were, but    *)
(* for the accumulator, which loses one fixed step; and fixedUpdate itself, *)
(* applied to the engine in any of the three modes, returns it unchanged    *)
C22_IdleTicksChangeNothing ==
    /\ \A k \in 1..(Len(LastTrace) - 1) :
         LastTrace[k].state.Mode \in IdleModes =>
           /\ LastTrace[k + 1].state = LastTrace[k].state
           /\ LastTrace[k + 1]
                = [LastTrace[k] EXCEPT !.accumulator = F64Sub(@, FixedStep)]
    /\ \A m \in IdleModes :
         fixedUpdate([engine EXCEPT !.state.Mode = m], FixedDeltaTime, now)
           = [engine EXCEPT !.state.Mode = m]

(* an Update of two ticks on a lost game with invaders on the screen and    *)
(* bullets in flight: nothing but DeltaTime and the accumulator differs     *)
C22_Witness ==
    /\ call.op = "Update" /\ call.ticks = 2
    /\ pre.state.Mode = GameOver
    /\ Len(pre.state.Bullets) >= 1 /\ Len(pre.state.Invaders) >= 1
    /\ engine.state = [pre.state EXCEPT !.DeltaTime = call.dt]
    /\ engine.accumulator
         = F64Sub(F64Sub(F64Add(pre.accumulator, call.dt), FixedStep), FixedStep)
    /\ engine.accumulator # pre.accumulator

(* ------------------------------------------------------------------------ *)
(* C23: the formation's step                                                *)
(* ------------------------------------------------------------------------ *)

(* the formation before a step stands at the edge it is moving toward *)
AtItsEdge(roster) ==
    LET xs == { roster[i].Position.X : i \in 1..Len(roster) }
    IN  \/ roster[1].Direction > 0 /\ \E x \in xs : x >= Px(ScreenWidth - 20)
        \/ roster[1].Direction < 0 /\ \E x \in xs : x <= Px(20)

(* the ticks of the trace in which the formation steps *)
StepTicks(trace) ==
    { k \in PlayingTicks(trace) :
        /\ \E i \in 1..Len(trace[k].state.Invaders) : trace[k].state.Invaders[i].Alive
        /\ FormationTick(trace, k).timer1 = 0 }

(* C23: on a step the invaders of the formation all face one way; if the    *)
(* formation moves right with its rightmost invader at X >= screenWidth -   *)
(* 20, or left with its leftmost at X <= 20, every invader turns round and  *)
(* goes down by the drop distance, 20, with X unchanged; otherwise every    *)
(* invader goes 10 sideways the way it faces, with Y and direction          *)
(* unchanged; no step does both                                             *)
C23_StepOrDrop ==
    \A k \in StepTicks(LastTrace) :
        LET f == FormationTick(LastTrace, k)
        IN  /\ Len(f.after) = Len(f.roster)
            /\ \A i \in 1..Len(f.roster) :
                 LET a == f.roster[i]
                     b == f.after[i]
                 IN  /\ a.Direction = f.roster[1].Direction
                     /\ a.Direction \in { -1, 1 }
                     /\ IF AtItsEdge(f.roster)
                        THEN /\ b.Direction = -a.Direction
                             /\ b.Position.Y = a.Position.Y + Px(20)
                             /\ b.Position.X = a.Position.X
                        ELSE /\ b.Direction = a.Direction
                             /\ b.Position.X = a.Position.X + Px(10) * a.Direction
                             /\ b.Position.Y = a.Position.Y

(* a step of a formation moving left that finds its leftmost invader 20     *)
(* pixels from the left edge: every invader turns right and goes down 20    *)
C23_Witness ==
    /\ call.op = "Update"
    /\ \E k \in StepTicks(LastTrace) :
         LET f == FormationTick(LastTrace, k)
         IN  /\ AtItsEdge(f.roster)
             /\ f.roster[1].Direction = -1
             /\ f.roster[1].Position.X = Px(20)
             /\ f.after[1].Direction = 1
             /\ f.after[1].Position.Y = f.roster[1].Position.Y + InvaderDropDistance

(* ------------------------------------------------------------------------ *)
(* C24: the formation at the bottom line                                    *)
(* ------------------------------------------------------------------------ *)

(* the ticks of the trace whose formation step leaves an invader at or *)
(* below the line 100 pixels above the bottom of the screen            *)
LandingTicks(trace) ==
    { k \in StepTicks(trace) :
        LET after == FormationTick(trace, k).after
        IN  \E i \in 1..Len(after) : after[i].Position.Y >= Px(ScreenHeight - 100) }

(* C24: when a step of the formation leaves an invader with Y >=            *)
(* screenHeight - 100 the game is over at the end of that tick, mode        *)
(* GameOver and GameEnded set, whatever the lives left (which the tick does *)
(* not take); and an Update that finds the mode GameOver leaves it GameOver *)
(* after every one of its ticks                                             *)
C24_BottomLineEndsGame ==
    LET trace == LastTrace
    IN  /\ \A k \in LandingTicks(trace) :
             /\ trace[k + 1].state.Mode = GameOver
             /\ trace[k + 1].state.GameEnded
             /\ \A j \in (k + 1)..Len(trace) : trace[j].state.Mode = GameOver
        /\ (call.op = "Update" /\ pre.state.Mode = GameOver) =>
             \A j \in 1..Len(trace) : trace[j].state.Mode = GameOver /\ trace[j].state.GameEnded

(* an Update whose first tick drops the formation onto the bottom line with *)
(* three lives left, and whose second tick finds the game over              *)
C24_Witness ==
    /\ call.op = "Update"
    /\ steps.updates = 1
    /\ Len(LastTrace) = 3
    /\ 1 \in LandingTicks(LastTrace)
    /\ pre.state.Lives = 3
    /\ pre.state.Mode = Playing
    /\ engine.state.Lives = 3
    /\ engine.state.Mode = GameOver
    /\ engine.state.GameEnded

(* ------------------------------------------------------------------------ *)
(* C25: the flight of a UFO                                                 *)
(* ------------------------------------------------------------------------ *)

(* the tick that starts from e0 ends with a player bullet hitting the UFO *)
UfoHitIn(e0) ==
    LET e1 == handlePlayerBulletCollisions(beforeCollisions(e0, FixedDeltaTime, call.t))
    IN  handlePlayerBulletUFOCollisions(e1) # e1

(* the ticks of play of the trace that start with the UFO where maybeSpawnUFO *)
(* puts it, 50 pixels outside the screen, flying in                           *)
FirstUfoTicks(trace) ==
    { k \in PlayingTicks(trace) :
        /\ trace[k].state.UFO # Nil
        /\ LET u == trace[k].state.UFO[1]
           IN  \/ u.Position.X = Px(-50) /\ u.Direction = 1
               \/ u.Position.X = Px(ScreenWidth + 50) /\ u.Direction = -1 }

(* C25: a UFO spawned at X = -50 flying right, or at screenWidth + 50       *)
(* flying left, is after the first tick that follows its spawn still alive  *)
(* and referenced by the game state, 100 * dt = 5 pixels further in, unless *)
(* a player bullet hit it in that tick or it is more than 15 s old          *)
C25_UfoFliesIn ==
    LET trace == LastTrace
    IN  \A k \in FirstUfoTicks(trace) :
          LET u0 == trace[k].state.UFO[1]
          IN  (~UfoHitIn(trace[k]) /\ call.t - u0.SpawnTime <= 15000) =>
                /\ trace[k + 1].state.UFO # Nil
                /\ trace[k + 1].state.UFO[1].Alive
                /\ trace[k + 1].state.UFO[1].Position.X = u0.Position.X + Px(5) * u0.Direction

(* ------------------------------------------------------------------------ *)
(* C26: player bullets against the UFO                                      *)
(* ------------------------------------------------------------------------ *)

(* the bullets of gs that are alive, the player's, and over the UFO of gs *)
OverUfo(gs) ==
    { i \in 1..Len(gs.Bullets) :
        /\ gs.Bullets[i].Alive
        /\ gs.Bullets[i].IsPlayerBullet
        /\ Intersects(gs.Bullets[i].Bounds, gs.UFO[1].Bounds) }

(* C26: in a collision pass that finds the UFO alive with live player       *)
(* bullets over it that did not kill an invader in this pass, the first of  *)
(* them dies, the UFO dies and the score rises by the UFO's points once,    *)
(* above the points of the invaders killed, however many bullets overlap    *)
(* it; the other bullets stay as they were; with no such bullet the UFO and *)
(* the score are left alone: neither an enemy bullet, nor a dead bullet,    *)
(* nor a bullet that killed an invader in the pass counts against the UFO   *)
C26_UfoHitOnce ==
    call.op = "handleCollisions" =>
        LET g0 == pre.state
            a == handlePlayerBulletCollisions(pre).state
            g1 == engine.state
            ufoLive == g0.UFO # Nil /\ g0.UFO[1].Alive
            spent == { i \in 1..Len(g0.Bullets) : g0.Bullets[i].Alive /\ ~a.Bullets[i].Alive }
            free == IF ufoLive THEN OverUfo(g0) \ spent ELSE {}
            invaderPoints == SumPoints(SelectSeq(g0.Invaders, IsAlive))
                               - SumPoints(SelectSeq(g1.Invaders, IsAlive))
        IN  /\ Len(g1.Bullets) = Len(g0.Bullets)
            /\ IF free # {}
               THEN /\ ~g1.UFO[1].Alive
                    /\ g1.Score = g0.Score + invaderPoints + g0.UFO[1].Points
                    /\ Cardinality({ i \in free : ~g1.Bullets[i].Alive }) = 1
                    /\ ~g1.Bullets[MinOf(free)].Alive
               ELSE /\ g1.UFO = g0.UFO
                    /\ g1.Score = g0.Score + invaderPoints
            /\ \A i \in 1..Len(g0.Bullets) :
                 (i \notin free /\ i \notin spent) => g1.Bullets[i] = g0.Bullets[i]

(* two live player bullets over a live UFO worth 300: the first dies, the *)
(* second flies on, and the score is 300 higher                           *)
C26_Witness ==
    /\ call.op = "handleCollisions"
    /\ pre.state.UFO # Nil
    /\ pre.state.UFO[1].Alive
    /\ pre.state.UFO[1].Points = 300
    /\ OverUfo(pre.state) = { 1, 2 }
    /\ ~engine.state.Bullets[1].Alive
    /\ engine.state.Bullets[2].Alive
    /\ ~engine.state.UFO[1].Alive
    /\ engine.state.Score = pre.state.Score + 300

(* ------------------------------------------------------------------------ *)
(* C27: the fire of the invaders                                            *)
(* ------------------------------------------------------------------------ *)

(* the enemy bullets the invaders add in tick k of the trace *)
ShotsInTick(trace, k) ==
    LET e0 == updatePlayer(trace[k], FixedDeltaTime, call.t)
    IN  Len(updateInvaders(e0, FixedDeltaTime, call.t).state.Bullets) - Len(e0.state.Bullets)

(* the ticks of play of the trace that start with an invader alive *)
ArmedTicks(trace) ==
    { k \in PlayingTicks(trace) : GetLiveInvaderCount(trace[k].state) > 0 }

(* C27: an invader fires only when its draw falls below shootChance * dt,   *)
(* at most 0.0015, drawn apart for each invader and tick; so in an Update   *)
(* that runs two or more ticks of play with invaders alive, some live       *)
(* invader holds its fire in some tick: it is not so that every live        *)
(* invader fires in every tick                                              *)
C27_InvadersHoldFire ==
    LET trace == LastTrace
    IN  Cardinality(ArmedTicks(trace)) >= 2 =>
          \E k \in ArmedTicks(trace) :
              ShotsInTick(trace, k) < GetLiveInvaderCount(trace[k].state)

(* ------------------------------------------------------------------------ *)
(* C28: the wave check and the invaders alive                               *)
(* ------------------------------------------------------------------------ *)

(* C28: in every state IsWaveCleared() is true exactly when no invader of   *)
(* the list is alive, that is when GetLiveInvaderCount() = 0, between calls *)
(* and where the wave check of a tick reads it                              *)
C28_ClearedIffNoneAlive ==
    /\ IsWaveCleared(engine.state) <=> GetLiveInvaderCount(engine.state) = 0
    /\ \A k \in PlayingTicks(LastTrace) :
          LET gs == TickStages(LastTrace[k], call.t).afterCollisions
          IN  IsWaveCleared(gs) <=> GetLiveInvaderCount(gs) = 0

(* ------------------------------------------------------------------------ *)
(* C29: the barrier grid of a new game                                      *)
(* ------------------------------------------------------------------------ *)

(* block (x, y) of a barrier lies outside the margin of three blocks on *)
(* every edge                                                           *)
InsideMargin(x, y) == x >= 3 /\ x <= 22 - 4 /\ y >= 3 /\ y <= 16 - 4

(* the barrier b of the grid has its blocks inside the margin solid but for *)
(* a gap of 6 by 4 blocks whose first column is x0 and first row y0         *)
GapAt(grid, b, x0, y0) ==
    \A x \in 0..21, y \in 0..15 :
        grid[22 * b + x][y] <=>
            /\ InsideMargin(x, y)
            /\ ~(x >= x0 /\ x < x0 + 6 /\ y >= y0 /\ y < y0 + 4)

(* C29: after InitializeNewGame the barrier grid is 88 columns of 16 rows,  *)
(* four barriers of 22 by 16 side by side, and in each barrier a block is   *)
(* solid exactly when it is outside the margin of 3 blocks on every edge    *)
(* and outside a gap of 6 by 4 blocks, the same in every barrier, with the  *)
(* columns 8..13 when centred across; the rows of the gap are left open     *)
(* here, so that the statement fails only if no gap of 6 by 4 fits          *)
C29_BarrierLayout ==
    StartedNewGame =>
        LET grid == engine.state.Barriers
        IN  /\ DOMAIN grid = 0..87
            /\ \A gx \in 0..87 : DOMAIN grid[gx] = 0..15
            /\ \E x0 \in 0..16, y0 \in 0..12 :
                 \A b \in 0..3 : GapAt(grid, b, x0, y0)

(* ------------------------------------------------------------------------ *)
(* C30: ApplyInput                                                          *)
(* ------------------------------------------------------------------------ *)

(* the last call was ProcessInput on a game in play, not paused, with a *)
(* live ship: the call that applies the input to the ship              *)
Steered ==
    /\ call.op = "ProcessInput"
    /\ pre.state.Mode = Playing
    /\ ~pre.state.Paused
    /\ ~call.in.pauseJust
    /\ PlayerLive(pre.state)

(* C30: ApplyInput on a live ship with exactly one of left and right        *)
(* pressed changes the horizontal velocity by acceleration * dt = 40 px/s   *)
(* that way; with both or neither it brings the velocity nearer 0 by        *)
(* friction * dt = 20 px/s without crossing 0: a positive velocity does not *)
(* become negative, nor a negative one positive, and 0 stays 0; and the     *)
(* result is held to |velocity.x| <= maxSpeed = 200, which alone shortens   *)
(* the change                                                               *)
C30_ApplyInput ==
    Steered =>
        LET v0 == pre.state.Player[1].Velocity.X
            v1 == engine.state.Player[1].Velocity.X
            left == call.in.left
            right == call.in.right
        IN  /\ (left /\ ~right) => v1 = (IF v0 - 40 < -200 THEN -200 ELSE v0 - 40)
            /\ (right /\ ~left) => v1 = (IF v0 + 40 > 200 THEN 200 ELSE v0 + 40)
            /\ (left = right /\ v0 > 0) => v1 = (IF v0 < 20 THEN 0 ELSE v0 - 20)
            /\ (left = right /\ v0 < 0) => v1 = (IF v0 > -20 THEN 0 ELSE v0 + 20)
            /\ (left = right /\ v0 = 0) => v1 = 0
            /\ v1 >= -200
            /\ v1 <= 200

(* both keys held on a ship that drifts right at 10 px/s, less than one *)
(* step of friction: it stops                                          *)
C30_Witness ==
    /\ Steered
    /\ call.in.left
    /\ call.in.right
    /\ pre.state.Player[1].Velocity.X = 10
    /\ engine.state.Player[1].Velocity.X = 0

(* ------------------------------------------------------------------------ *)
(* C31: bullets leaving the screen                                          *)
(* ------------------------------------------------------------------------ *)

(* the position of bullet b after a tick of flight *)
FlownTo(b) ==
    [ X |-> b.Position.X + b.Velocity.X * FixedDeltaTime,
      Y |-> b.Position.Y + b.Velocity.Y * FixedDeltaTime ]

OnScreen(pos) ==
    /\ pos.X >= 0
    /\ pos.X <= Px(ScreenWidth)
    /\ pos.Y >= 0
    /\ pos.Y <= Px(ScreenHeight)

StaysOnScreen(b) == b.Alive /\ OnScreen(FlownTo(b))

(* the engine of tick k of the trace as the bullet step finds it *)
BeforeBullets(trace, k) ==
    updateInvaders(updatePlayer(trace[k], FixedDeltaTime, call.t), FixedDeltaTime, call.t)

(* C31: the bullet step of every tick of play moves each live bullet by     *)
(* velocity * dt and keeps exactly, in order, those whose new position has  *)
(* 0 <= x <= screenWidth and 0 <= y <= screenHeight, so that after it the   *)
(* list holds only live bullets inside [0, screenWidth] x [0, screenHeight] *)
C31_BulletsLeaveAtEdge ==
    LET trace == LastTrace
    IN  \A k \in PlayingTicks(trace) :
          LET found == BeforeBullets(trace, k).state.Bullets
              kept == SelectSeq(found, StaysOnScreen)
              left == updateBullets(BeforeBullets(trace, k), FixedDeltaTime).state.Bullets
          IN  /\ Len(left) = Len(kept)
              /\ \A j \in 1..Len(left) :
                   /\ left[j].Alive
                   /\ OnScreen(left[j].Position)
                   /\ left[j].Position = FlownTo(kept[j])
                   /\ left[j].IsPlayerBullet = kept[j].IsPlayerBullet

(* a tick whose bullet step drops a player bullet that flew past the top *)
(* and keeps one that came to rest exactly on it, at Y = 0               *)
C31_Witness ==
    /\ call.op = "Update"
    /\ \E k \in PlayingTicks(LastTrace) :
         LET found == BeforeBullets(LastTrace, k).state.Bullets
             left == updateBullets(BeforeBullets(LastTrace, k), FixedDeltaTime).state.Bullets
         IN  /\ \E j \in 1..Len(found) :
                  found[j].Alive /\ found[j].IsPlayerBullet /\ FlownTo(found[j]).Y < 0
             /\ \E j \in 1..Len(left) : left[j].IsPlayerBullet /\ left[j].Position.Y = 0

(* ------------------------------------------------------------------------ *)
(* C32: Intersects                                                          *)
(* ------------------------------------------------------------------------ *)

(* the length the spans [a, a + w] and [b, b + v] have in common *)
Shared(a, w, b, v) ==
    (IF a + w < b + v THEN a + w ELSE b + v) - (IF a > b THEN a ELSE b)

(* the rectangles a and b overlap with positive extent on both axes *)
Overlap(a, b) ==
    /\ Shared(a.X, a.Width, b.X, b.Width) > 0
    /\ Shared(a.Y, a.Height, b.Y, b.Height) > 0

(* C32: Intersects is true exactly when the two rectangles overlap with     *)
(* positive extent on both axes, so not when they touch along an edge or at *)
(* a corner; it gives the same for (a, b) and (b, a), CheckAABBCollision    *)
(* gives the same as Intersects, and the collision pass kills the invader   *)
(* exactly on such an overlap with the bullet                               *)
C32_IntersectsIsOverlap ==
    (call.op = "handlePlayerBulletCollisions" /\ pre.state.Bullets[1].Alive
        /\ pre.state.Invaders[1].Alive) =>
        LET a == pre.state.Bullets[1].Bounds
            b == pre.state.Invaders[1].Bounds
        IN  /\ Intersects(a, b) <=> Overlap(a, b)
            /\ Intersects(b, a) <=> Intersects(a, b)
            /\ CheckAABBCollision(a, b) <=> Intersects(a, b)
            /\ CheckAABBCollision(b, a) <=> Intersects(b, a)
            /\ ~engine.state.Invaders[1].Alive <=> Overlap(a, b)
            /\ ~engine.state.Bullets[1].Alive <=> Overlap(a, b)

(* a bullet whose corner touches the corner of the invader: no hit *)
C32_Witness ==
    /\ call.op = "handlePlayerBulletCollisions"
    /\ pre.state.Bullets[1].Alive
    /\ pre.state.Bullets[1].Bounds.X + pre.state.Bullets[1].Bounds.Width
         = pre.state.Invaders[1].Bounds.X
    /\ pre.state.Bullets[1].Bounds.Y
         = pre.state.Invaders[1].Bounds.Y + pre.state.Invaders[1].Bounds.Height
    /\ engine.state.Invaders[1].Alive
    /\ engine.state.Bullets[1].Alive
    /\ engine.state.Score = pre.state.Score

(* ------------------------------------------------------------------------ *)
(* C33: the end of the game                                                 *)
(* ------------------------------------------------------------------------ *)

(* the game states tick k of the trace passes through, in order: at its    *)
(* start, after the invader step, at the collisions, after each collision *)
(* pass, after the wave check and at its end                              *)
StagesOfTick(trace, k) ==
    LET s == TickStages(trace[k], call.t)
    IN  << trace[k].state,
           updateInvaders(updatePlayer(trace[k], FixedDeltaTime, call.t),
                          FixedDeltaTime, call.t).state,
           s.atCollisions, s.afterPlayerBullets, s.beforeEnemyBullets,
           s.afterCollisions, s.afterWaveCheck, trace[k + 1].state >>

(* the game is over in a and b keeps its score, lives and wave *)
KeptAfterEnd(a, b) ==
    a.Mode = GameOver =>
        /\ b.Score = a.Score
        /\ b.Lives = a.Lives
        /\ b.Wave = a.Wave

(* C33: once the mode is GameOver, by the formation at the bottom line or   *)
(* by the loss of the last life, Score, Lives and Wave keep their values    *)
(* while the mode stays GameOver: through every later step of the tick that *)
(* ended the game, through later ticks and through later calls              *)
C33_FrozenAfterGameOver ==
    LET trace == LastTrace
    IN  /\ \A k \in PlayingTicks(trace) :
             LET stages == StagesOfTick(trace, k)
             IN  \A j \in 1..(Len(stages) - 1) : KeptAfterEnd(stages[j], stages[j + 1])
        /\ \A k \in 1..(Len(trace) - 1) : KeptAfterEnd(trace[k].state, trace[k + 1].state)
        /\ engine.state.Mode = GameOver => KeptAfterEnd(pre.state, engine.state)

(* ------------------------------------------------------------------------ *)
(* C34: lives                                                               *)
(* ------------------------------------------------------------------------ *)

(* C34: between calls, mode = Playing implies a player that exists and is  *)
(* alive and 1 <= lives <= 3; in every state, those inside a tick too,      *)
(* 0 <= lives <= 3; and lives never increase, from one step of a tick to    *)
(* the next or from one call to the next, except to 3 in the call that      *)
(* starts a new game                                                        *)
C34_LivesInRange ==
    LET trace == LastTrace
    IN  /\ engine.state.Mode = Playing =>
              /\ PlayerLive(engine.state)
              /\ engine.state.Lives >= 1
              /\ engine.state.Lives <= 3
        /\ \A k \in 1..Len(trace) : trace[k].state.Lives \in 0..3
        /\ \A k \in PlayingTicks(trace) :
              LET stages == StagesOfTick(trace, k)
              IN  /\ \A j \in 1..Len(stages) : stages[j].Lives \in 0..3
                  /\ \A j \in 1..(Len(stages) - 1) : stages[j + 1].Lives <= stages[j].Lives
        /\ engine.state.Lives > pre.state.Lives =>
              /\ call.op \in { "ProcessInput", "ProcessAnalogInput" }
              /\ StartedNewGame
              /\ engine.state.Lives = 3

(* a new game started after a game lost with no life left *)
C34_Witness ==
    /\ StartedNewGame
    /\ pre.state.Lives = 0
    /\ engine.state.Lives = 3
    /\ PlayerLive(engine.state)

(* ------------------------------------------------------------------------ *)
(* C35: the pause flag                                                      *)
(* ------------------------------------------------------------------------ *)

InputCall == call.op \in { "ProcessInput", "ProcessAnalogInput" }

(* C35: in every state Paused implies mode = Playing; the flag is set only  *)
(* by an input call with the pause key on a game in play; a call on a       *)
(* paused game leaves the mode Playing, and an Update on it runs no tick    *)
(* and changes nothing but the recorded frame time; and an input call that  *)
(* leaves the game paused moves no player and adds no bullet                *)
C35_PausedOnlyInPlay ==
    LET trace == LastTrace
    IN  /\ engine.state.Paused => engine.state.Mode = Playing
        /\ \A k \in 1..Len(trace) : trace[k].state.Paused => trace[k].state.Mode = Playing
        /\ (engine.state.Paused /\ ~pre.state.Paused) =>
              /\ InputCall
              /\ call.in.pauseJust
              /\ pre.state.Mode = Playing
        /\ pre.state.Paused =>
              /\ engine.state.Mode = Playing
              /\ ~engine.state.GameEnded
              /\ call.op = "Update" =>
                    /\ call.ticks = 0
                    /\ engine = [pre EXCEPT !.state.DeltaTime = call.dt]
        /\ (InputCall /\ engine.state.Paused) =>
              /\ engine.state.Player = pre.state.Player
              /\ engine.state.Bullets = pre.state.Bullets

(* a paused game handed the fire button and a full deflection to the right: *)
(* the ship stays and no bullet is added                                    *)
C35_Witness ==
    /\ call.op = "ProcessAnalogInput"
    /\ call.in.fire
    /\ call.in.analogX = 10
    /\ pre.state.Paused
    /\ engine.state.Paused
    /\ PlayerLive(pre.state)
    /\ pre.state.Player[1].CanShoot
    /\ engine.state.Player = pre.state.Player
    /\ engine.state.Bullets = pre.state.Bullets

(* ------------------------------------------------------------------------ *)
(* C36: one award for each invader                                          *)
(* ------------------------------------------------------------------------ *)

(* the live invaders of gs that bullet i of gs overlaps *)
InvadersUnder(gs, i) ==
    { j \in 1..Len(gs.Invaders) :
        gs.Invaders[j].Alive /\ Intersects(gs.Bullets[i].Bounds, gs.Invaders[j].Bounds) }

(* the live player bullets of gs that overlap invader j of gs *)
BulletsOver(gs, j) ==
    { i \in LivePlayerBullets(gs) : j \in InvadersUnder(gs, i) }

(* C36: in one pass of player bullets against invaders the score rises by  *)
(* the points of each invader that dies, once each, and no invader dead     *)
(* before the pass scores; when the live player bullets over a live invader *)
(* overlap no other live invader, the invader dies, only the first of those *)
(* bullets in list order is consumed and the others stay alive              *)
C36_AwardedOnce ==
    call.op = "handlePlayerBulletCollisions" =>
        LET g0 == pre.state
            g1 == engine.state
            invaders == 1..Len(g0.Invaders)
            killed == { j \in invaders : g0.Invaders[j].Alive /\ ~g1.Invaders[j].Alive }
            award(j) == IF j \in killed THEN g0.Invaders[j].Points ELSE 0
        IN  /\ Len(g1.Invaders) = Len(g0.Invaders)
            /\ g1.Score = g0.Score + award(1) + award(2) + award(3)
            /\ \A j \in invaders : ~g0.Invaders[j].Alive => ~g1.Invaders[j].Alive
            /\ \A j \in invaders :
                 LET over == BulletsOver(g0, j)
                 IN  (over # {} /\ \A i \in over : InvadersUnder(g0, i) = { j }) =>
                        /\ j \in killed
                        /\ ~g1.Bullets[MinOf(over)].Alive
                        /\ \A i \in over \ { MinOf(over) } : g1.Bullets[i].Alive

(* two live player bullets over the same invader and no other: the invader *)
(* dies, its 10 points are awarded once and the second bullet flies on     *)
C36_Witness ==
    /\ call.op = "handlePlayerBulletCollisions"
    /\ \E j \in 1..Len(pre.state.Invaders) :
         /\ BulletsOver(pre.state, j) = { 1, 2 }
         /\ InvadersUnder(pre.state, 1) = { j }
         /\ InvadersUnder(pre.state, 2) = { j }
         /\ pre.state.Invaders[j].Points = 10
         /\ ~engine.state.Invaders[j].Alive
    /\ ~engine.state.Bullets[1].Alive
    /\ engine.state.Bullets[2].Alive
    /\ engine.state.Score = pre.state.Score + 10

(* ------------------------------------------------------------------------ *)
(* C37: one mode transition for each input call                             *)
(* ------------------------------------------------------------------------ *)

(* the mode changes one input call can make *)
InputTransitions ==
    { << AttractMode, Playing >>, << GameOver, AttractMode >>, << HighScore, AttractMode >> }

(* C37: an input call leaves the mode as it is or takes it one step:        *)
(* AttractMode to Playing, or GameOver or HighScore to AttractMode, never   *)
(* GameOver to Playing; and the call that starts a game leaves the new ship *)
(* at rest at (screenWidth/2, screenHeight-40), ready to shoot, with no     *)
(* bullet in the list, whatever keys the call carried                       *)
C37_OneTransition ==
    InputCall =>
        /\ \/ engine.state.Mode = pre.state.Mode
           \/ << pre.state.Mode, engine.state.Mode >> \in InputTransitions
        /\ (pre.state.Mode = AttractMode /\ engine.state.Mode = AttractMode) =>
              engine.state.GameStarted = pre.state.GameStarted
        /\ StartedNewGame =>
              /\ engine.state.Bullets = << >>
              /\ engine.state.Player
                   = << NewPlayerShip(Px(ScreenWidth \div 2), Px(ScreenHeight - 40), call.t) >>
              /\ engine.state.Player[1].Velocity.X = 0
              /\ engine.state.Player[1].CanShoot

(* the fire key pressed on the attract screen after a lost game: the game *)
(* starts and the press fires no bullet                                   *)
C37_Witness ==
    /\ call.op = "ProcessInput"
    /\ call.in.fireJust
    /\ StartedNewGame
    /\ pre.state.GameStarted = FALSE
    /\ pre.state.Score > 0
    /\ engine.state.Bullets = << >>
    /\ engine.state.Player[1].CanShoot

(* ------------------------------------------------------------------------ *)
(* C38: the formation stays on the screen                                   *)
(* ------------------------------------------------------------------------ *)

(* the invaders of gs face one way and the live ones stand inside the *)
(* screen, more than 10 pixels from either side                      *)
FormationOnScreen(gs) ==
    \A i \in 1..Len(gs.Invaders) :
        /\ gs.Invaders[i].Direction = gs.Invaders[1].Direction
        /\ gs.Invaders[i].Alive =>
              /\ gs.Invaders[i].Position.X > Px(10)
              /\ gs.Invaders[i].Position.X < Px(ScreenWidth - 10)

(* C38: in every state, between calls or inside a tick, after ticks, kills  *)
(* and wave changes, every live invader has 10 < position.x < screenWidth - *)
(* 10, and the invaders of the list all have the same direction             *)
C38_FormationOnScreen ==
    LET trace == LastTrace
    IN  /\ FormationOnScreen(engine.state)
        /\ \A k \in 1..Len(trace) : FormationOnScreen(trace[k].state)
        /\ \A k \in PlayingTicks(trace) :
              LET stages == StagesOfTick(trace, k)
              IN  \A j \in 1..Len(stages) : FormationOnScreen(stages[j])

(* a formation that stepped to the right edge, X = 780, lost the invader *)
(* there to a bullet and, at its next step, went on to the right         *)
C38_Witness ==
    /\ call.op = "Update"
    /\ \E k \in StepTicks(LastTrace) :
         LET f == FormationTick(LastTrace, k)
         IN  /\ Len(f.roster) = 2
             /\ f.roster[1].Direction = 1
             /\ f.roster[1].Position.X = Px(ScreenWidth - 20 - 40)
             /\ f.after[1].Position.X = Px(ScreenWidth - 20 - 30)
             /\ f.after[1].Direction = 1

(* ------------------------------------------------------------------------ *)
(* C39: a game the player leaves alone ends                                 *)
(* ------------------------------------------------------------------------ *)

(* two invaders at the left edge moving left, 40 px above the bottom line: *)
(* one drop, a crossing of the screen and a second drop away from landing  *)
LastCrossing(lives) ==
    GameInProgress(<< GridInvader(4, 0, EdgeMargin - GridStartX, 260, -1),
                      GridInvader(4, 1, EdgeMargin - GridStartX, 260, -1) >>,
                   << >>, lives, 2 * FixedDeltaTime)

(* two invaders four steps from the right edge, one drop from landing *)
LastSteps(lives) ==
    GameInProgress(<< GridInvader(4, 9, 240, 280, 1), GridInvader(4, 10, 240, 280, 1) >>,
                   << >>, lives, 2 * FixedDeltaTime)

(* games without player bullets: a formation one drop and two drops from *)
(* landing, and a last life about to be lost                             *)
IdleGames ==
    { LastCrossing(lives) : lives \in 1..3 } \cup { LastSteps(3) } \cup
    { NearBottom(lives) : lives \in 1..3 } \cup
    { [UnderFire(1) EXCEPT !.state.Bullets = SelectSeq(@, IsEnemyBullet)] }

(* frame times above zero: one step and two steps, which the accumulator *)
(* takes without a rounding error                                       *)
IdleDts == {FixedStep, F64Times(2, FixedStep)}

InitIdle ==
    /\ now = PlayTime
    /\ engine \in IdleGames
    /\ pre = engine
    /\ call = NoCall
    /\ steps = NoSteps
    /\ HostLoaded

(* Update(deltaTime) of a run of any length, called while the game is being *)
(* played and not paused, with no input call in between                     *)
UpdateIdle(deltaTime) ==
    /\ engine.state.Mode = Playing
    /\ ~engine.state.Paused
    /\ LET trace == UpdateTrace(engine, deltaTime, now)
       IN  /\ engine' = trace[Len(trace)]
           /\ call' = [op |-> "Update", in |-> NoKeys, dt |-> deltaTime, t |-> now,
                       ticks |-> Len(trace) - 1]
           /\ steps' = [steps EXCEPT !.ships = @ + Respawns(trace, now)]
    /\ pre' = engine
    /\ UNCHANGED <<now, hostVars>>

NextIdle == \E deltaTime \in IdleDts : UpdateIdle(deltaTime)

(* Update can be called: the game is being played and is not paused *)
IdleEnabled == engine.state.Mode = Playing /\ ~engine.state.Paused

(* Update keeps being called: weak fairness of NextIdle, written out with the *)
(* guard of UpdateIdle for its enabling condition                           *)
IdleFairness == []<>(~IdleEnabled) \/ []<><<NextIdle>>_vars

SpecIdle == InitIdle /\ [][NextIdle]_vars /\ IdleFairness

(* C39: while Update keeps being called with positive time on a game that  *)
(* is being played, not paused, and no invader is destroyed, the mode      *)
(* eventually becomes GameOver                                             *)
C39_IdleGameEnds ==
    (engine.state.Mode = Playing /\ ~engine.state.Paused)
        ~> (engine.state.Mode = GameOver)

(* a game of three lives lost to the bullets of a formation that dropped at *)
(* the left edge and was crossing the screen, 20 px above the bottom line   *)
C39_Witness ==
    /\ pre.state.Mode = Playing
    /\ engine.state.Mode = GameOver
    /\ engine.state.Lives = 0
    /\ steps.ships = 2
    /\ \A k \in 1..Len(engine.state.Invaders) :
          /\ engine.state.Invaders[k].Position.Y = Px(ScreenHeight - BottomMargin - 20)
          /\ engine.state.Invaders[k].Direction = 1

(* ------------------------------------------------------------------------ *)
(* C40: bullets expire                                                      *)
(* ------------------------------------------------------------------------ *)

(* the columns, right of the formation, where the bullets watched stand *)
StrayColumns == {700, 760}

(* two invaders of the top rows, right of the ship and moving left, one life *)
(* left, with the bullets given in flight                                   *)
InFlight(bullets) ==
    GameInProgress(<< GridInvader(0, 10, 0, 0, -1), GridInvader(1, 10, 0, 0, -1) >>,
                   bullets, 1, 2 * FixedDeltaTime)

(* a player bullet just fired, one half way up, and enemy bullets at the top *)
(* and half way down, in columns no invader stands in                        *)
FlightGames ==
    { InFlight(<< PlayerBulletAt(400, 540), EnemyBulletAt(700, 90) >>),
      InFlight(<< EnemyBulletAt(760, 300), PlayerBulletAt(400, 300),
                  EnemyBulletAt(700, 90) >>),
      InFlight(<< PlayerBulletAt(300, 540), PlayerBulletAt(300, 20) >>) }

InitFlight ==
    /\ now = PlayTime
    /\ engine \in FlightGames
    /\ pre = engine
    /\ call = NoCall
    /\ steps = NoSteps
    /\ HostLoaded

(* the game left to its ticks, Update called again and again *)
SpecFlight == InitFlight /\ [][NextIdle]_vars /\ IdleFairness

(* the bullets of the list that were in flight at the start: the player's, *)
(* none being fired here, and the enemy's in the columns watched           *)
Strays(gs) ==
    { k \in 1..Len(gs.Bullets) :
        \/ IsPlayerBullet(gs.Bullets[k])
        \/ \E x \in StrayColumns : gs.Bullets[k].Position.X = Px(x) }

(* the ticks an enemy bullet takes from the top of the screen to the bottom *)
MaxFlightTicks == ScreenHeight \div 10 + 1

(* C40: while the ticks of a game go on, every bullet in the list is removed *)
(* from it after a bounded number of ticks, and the list holds no more than  *)
(* the bullets the live invaders fire in the time a bullet takes to cross    *)
(* the screen, plus those in flight at the start                             *)
C40_BulletsExpire ==
    /\ [](Len(engine.state.Bullets) <=
            Len(engine.state.Invaders) * MaxFlightTicks + 3)
    /\ (IdleEnabled /\ Strays(engine.state) # {})
          ~> (IdleEnabled /\ Strays(engine.state) = {})

(* the game still being played, the bullets of the start gone, the list *)
(* holding only bullets the invaders fired since                       *)
C40_Witness ==
    /\ call.op = "Update"
    /\ engine.state.Mode = Playing
    /\ Strays(pre.state) # {}
    /\ Strays(engine.state) = {}
    /\ Len(engine.state.Bullets) > 2 * 40

====
